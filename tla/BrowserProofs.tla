--------------------------- MODULE BrowserProofs ----------------------------
(***************************************************************************)
(* What the app shows is what its URL asks for, and what its history says  *)
(* of the entry before is true (Browser.tla, Nav.tla), for any queries,    *)
(* heights and lengths of the history.                                     *)
(***************************************************************************)
EXTENDS Browser, FiniteSetTheorems, SequenceTheorems, TLAPS

NavFlights == [height : Height, own : BOOLEAN]

IsHistory(g) == g \in History /\ g.at \in 1 .. Len(g.entries)

\* No two neighbours are the same.
Distinct(g) ==
    \A i \in 1 .. Len(g.entries) - 1 : g.entries[i].q # g.entries[i + 1].q

\* An entry says nothing, or the truth, of itself and of the one before it.
Truthful(g, i) ==
    /\ g.entries[i].kind \in {"none", KindOf(g.entries[i].q)}
    /\ g.entries[i].prev # "none" =>
           i > 1 /\ g.entries[i].prev = KindOf(g.entries[i - 1].q)

Remembers(g) == \A i \in 1 .. Len(g.entries) : Truthful(g, i)

\* m: has an entry been marked with another's kind?
Sound(g, m) == IsHistory(g) /\ Distinct(g) /\ (~ m => Remembers(g))

OneSearch == \A a, b \in searches : a = b

\* ShownIsAsked without the count of the searches.
Asked ==
    ~ strayed =>
        /\ view \in {"tx", "address", "block"} =>
               page = Current(h).q /\ KindOf(page) = view
        /\ view = "landing" => Current(h).q = Home
        /\ view = "loading" => Current(h).q \in searches

BrowserInv ==
    /\ Sound(h, mismarked)
    /\ searches \subseteq Query /\ navs \subseteq NavFlights
    /\ OneSearch /\ Asked

-----------------------------------------------------------------------------
(* Queries *)

\* The kinds of the queries the user can have asked for.
LEMMA Kinds ==
    /\ \A q \in Query : KindOf(q) \in {"tx", "address", "block", "none"}
                        /\ Result(q) \in {KindOf(q), "none"}
    /\ \A q \in Height : q \in Query /\ KindOf(q) = "block"
    /\ KindOf(Home) = "home" /\ Home \notin Query
<1>1. Home \notin Query
  BY NavAssumption DEF NavAssumption
<1>2. /\ Query = TxQuery \cup AddressQuery \cup WrongQuery \cup Height
      /\ TxQuery \cap AddressQuery = {}
      /\ (TxQuery \cup AddressQuery) \cap Height = {}
  BY BrowserAssumption DEF BrowserAssumption, Height
<1>3. \A q \in Query : KindOf(q) \in {"tx", "address", "block", "none"}
  BY <1>1, <1>2 DEF KindOf
<1>4. \A q \in Height : q \in Query /\ KindOf(q) = "block"
  BY <1>1, <1>2 DEF KindOf
<1>5. KindOf(Home) = "home"
  BY <1>1, <1>2 DEF KindOf
<1>6. \A q : Result(q) \in {KindOf(q), "none"}
  BY DEF Result
<1> QED
  BY <1>1, <1>3, <1>4, <1>5, <1>6

-----------------------------------------------------------------------------
(* Histories *)

\* The entries up to the current one stay, and the new one is current.
LEMMA AppendedEntries ==
    ASSUME NEW g, IsHistory(g), NEW e \in NavEntry
    PROVE  /\ IsHistory(Append1(g, e))
           /\ Append1(g, e).at = g.at + 1
           /\ Len(Append1(g, e).entries) = g.at + 1
           /\ \A i \in 1 .. g.at : Append1(g, e).entries[i] = g.entries[i]
           /\ Append1(g, e).entries[g.at + 1] = e
<1> DEFINE kept == SubSeq(g.entries, 1, g.at)
<1>1. g.entries \in Seq(NavEntry) /\ g.at \in Nat
      /\ g.at \in 1 .. Len(g.entries)
  BY DEF IsHistory, History
<1>2. kept \in Seq(NavEntry) /\ Len(kept) = g.at
      /\ \A i \in 1 .. g.at : kept[i] = g.entries[i]
  BY <1>1
<1> HIDE DEF kept
<1>3. Append(kept, e) \in Seq(NavEntry) /\ Len(Append(kept, e)) = g.at + 1
      /\ (\A i \in 1 .. g.at : Append(kept, e)[i] = kept[i])
      /\ Append(kept, e)[g.at + 1] = e
  BY <1>1, <1>2
<1>4. Append1(g, e) = [entries |-> Append(kept, e), at |-> g.at + 1]
  BY DEF Append1, kept
<1>5. Append1(g, e).entries = Append(kept, e) /\ Append1(g, e).at = g.at + 1
  BY <1>4
<1>6. Append1(g, e) \in History
  BY <1>1, <1>3, <1>4 DEF History
<1>7. g.at + 1 \in 1 .. g.at + 1
  BY <1>1
<1> QED
  BY <1>2, <1>3, <1>5, <1>6, <1>7 DEF IsHistory

\* A new entry of another query that says the truth of the current one
\* leaves the history sound.
LEMMA AppendedSound ==
    ASSUME NEW g, NEW m, Sound(g, m), NEW e \in NavEntry,
           e.q # Current(g).q, e.kind \in {"none", KindOf(e.q)},
           ~ m /\ e.prev # "none" => e.prev = KindOf(Current(g).q)
    PROVE  Sound(Append1(g, e), m) /\ Current(Append1(g, e)) = e
<1> DEFINE a == Append1(g, e)
<1>1. IsHistory(g) /\ Distinct(g) /\ (~ m => Remembers(g))
  BY DEF Sound
<1>2. g.at \in Nat /\ g.at >= 1 /\ g.at <= Len(g.entries)
      /\ Len(g.entries) \in Nat
  BY <1>1 DEF IsHistory, History
<1>3. /\ IsHistory(a) /\ a.at = g.at + 1 /\ Len(a.entries) = g.at + 1
      /\ \A i \in 1 .. g.at : a.entries[i] = g.entries[i]
      /\ a.entries[g.at + 1] = e
  BY <1>1, AppendedEntries
<1> HIDE DEF a
<1>4. Distinct(a)
  <2>1. SUFFICES ASSUME NEW i \in 1 .. g.at
        PROVE  a.entries[i].q # a.entries[i + 1].q
    BY <1>2, <1>3 DEF Distinct
  <2>2. CASE i = g.at
    BY <1>2, <1>3, <2>2 DEF Current
  <2>3. CASE i # g.at
    <3>1. i \in 1 .. Len(g.entries) - 1 /\ i + 1 \in 1 .. g.at
      BY <1>2, <2>3
    <3> QED
      BY <1>1, <1>3, <3>1 DEF Distinct
  <2> QED
    BY <2>2, <2>3
<1>5. ASSUME ~ m
      PROVE  Remembers(a)
  <2>1. SUFFICES ASSUME NEW i \in 1 .. g.at + 1
        PROVE  Truthful(a, i)
    BY <1>2, <1>3 DEF Remembers
  <2>2. CASE i = g.at + 1
    <3>1. a.entries[i] = e /\ i > 1 /\ i - 1 = g.at
      BY <1>2, <1>3, <2>2
    <3>2. a.entries[i - 1] = Current(g)
      BY <1>2, <1>3, <3>1 DEF Current
    <3> QED
      BY <1>5, <3>1, <3>2 DEF Truthful
  <2>3. CASE i # g.at + 1
    <3>1. i \in 1 .. g.at /\ i \in 1 .. Len(g.entries)
          /\ (i > 1 => i - 1 \in 1 .. g.at)
      BY <1>2, <2>3
    <3>2. Truthful(g, i)
      BY <1>1, <1>5, <3>1 DEF Remembers
    <3> QED
      BY <1>3, <3>1, <3>2 DEF Truthful
  <2> QED
    BY <2>2, <2>3
<1>6. Current(a) = e
  BY <1>3 DEF Current
<1> QED
  BY <1>3, <1>4, <1>5, <1>6 DEF Sound, a

\* The current entry is an entry.
LEMMA CurrentEntry ==
    ASSUME NEW g, IsHistory(g)
    PROVE  Current(g) \in NavEntry
BY DEF IsHistory, History, Current

\* Pushing a query makes it the current one.
LEMMA PushedSound ==
    ASSUME NEW g, NEW m, Sound(g, m), NEW q \in Query \cup {Home}
    PROVE  Sound(PushQuery(g, q), m) /\ Current(PushQuery(g, q)).q = q
<1> DEFINE c == Current(g)
           e == NextEntry(c, q)
<1>1. IsHistory(g) /\ c \in NavEntry
  BY CurrentEntry DEF Sound
<1>2. CASE ~ ShouldPush(c, q)
  BY <1>2 DEF PushQuery, ShouldPush
<1>3. CASE ShouldPush(c, q)
  <2>1. PushQuery(g, q) = Append1(g, e) /\ e.q # c.q
    BY <1>3 DEF PushQuery, ShouldPush, NextEntry
  <2>2. e \in NavEntry /\ e.q = q /\ e.kind = "none"
    BY <1>1 DEF NextEntry, NavEntry, PageKind
  <2>3. ~ m => c.kind \in {"none", KindOf(c.q)}
    BY <1>1 DEF Sound, Remembers, Truthful, IsHistory, Current
  <2>4. ~ m /\ e.prev # "none" => e.prev = KindOf(c.q)
    BY <2>3, Kinds DEF NextEntry
  <2> HIDE DEF c, e
  <2>5. Sound(Append1(g, e), m) /\ Current(Append1(g, e)) = e
    BY <2>1, <2>2, <2>4, AppendedSound DEF c
  <2> QED
    BY <2>1, <2>2, <2>5
<1> QED
  BY <1>2, <1>3

\* Another entry of the same history.
LEMMA MovedSound ==
    ASSUME NEW g, NEW m, Sound(g, m), NEW i \in 1 .. Len(g.entries)
    PROVE  /\ Sound([g EXCEPT !.at = i], m)
           /\ Current([g EXCEPT !.at = i]) = g.entries[i]
           /\ Current([g EXCEPT !.at = i]).q \in Query \cup {Home}
<1>1. g \in History /\ g.entries \in Seq(NavEntry) /\ i \in Nat
  BY DEF Sound, IsHistory, History
<1>2. [g EXCEPT !.at = i] \in History /\ [g EXCEPT !.at = i].at = i
      /\ [g EXCEPT !.at = i].entries = g.entries
  BY <1>1 DEF History
<1>3. g.entries[i] \in NavEntry
  BY <1>1
<1> QED
  BY <1>2, <1>3 DEF Sound, IsHistory, Distinct, Remembers, Truthful, Current,
     NavEntry

\* Marking changes what an entry says of itself only, and is noted if that
\* is of another query.
LEMMA MarkedSound ==
    ASSUME NEW g, Sound(g, mismarked), NEW kind \in PageKind \cup {"none"},
           Mark(g, kind)
    PROVE  Sound(h', mismarked') /\ Current(h').q = Current(g).q
<1> DEFINE e == [g.entries[g.at] EXCEPT !.kind = kind]
           s == [g.entries EXCEPT ![g.at] = e]
<1>1. g \in History /\ g.entries \in Seq(NavEntry) /\ g.at \in Nat
      /\ g.at \in 1 .. Len(g.entries)
  BY DEF Sound, IsHistory, History
<1>2. g.entries[g.at] \in NavEntry
  BY <1>1
<1>3. e \in NavEntry /\ e.kind = kind /\ e.q = g.entries[g.at].q
      /\ e.prev = g.entries[g.at].prev
  BY <1>2 DEF NavEntry
<1> HIDE DEF e
<1>4. s \in Seq(NavEntry) /\ Len(s) = Len(g.entries)
      /\ \A j \in 1 .. Len(g.entries) :
             s[j] = IF j = g.at THEN e ELSE g.entries[j]
  BY <1>1, <1>3, ExceptSeq
<1>5. h' = [g EXCEPT !.entries = s]
  BY DEF Mark, MarkKind, e
<1> HIDE DEF s
<1>6. h' \in History /\ h'.entries = s /\ h'.at = g.at
  BY <1>1, <1>4, <1>5 DEF History
<1>7. IsHistory(h')
  BY <1>1, <1>4, <1>6 DEF IsHistory
<1>8. \A j \in 1 .. Len(g.entries) :
          /\ s[j].q = g.entries[j].q /\ s[j].prev = g.entries[j].prev
          /\ s[j].kind = IF j = g.at THEN kind ELSE g.entries[j].kind
  BY <1>3, <1>4
<1>9. Distinct(h')
  <2>1. SUFFICES ASSUME NEW i \in 1 .. Len(g.entries) - 1
        PROVE  s[i].q # s[i + 1].q
    BY <1>4, <1>6 DEF Distinct
  <2>2. i \in 1 .. Len(g.entries) /\ i + 1 \in 1 .. Len(g.entries)
    BY <1>1
  <2> QED
    BY <1>8, <2>2 DEF Sound, Distinct
<1>10. Current(h').q = Current(g).q
  BY <1>1, <1>6, <1>8 DEF Current
<1>11. ASSUME ~ mismarked'
       PROVE  Remembers(h')
  <2>1. ~ mismarked /\ kind \in {"none", KindOf(g.entries[g.at].q)}
    BY <1>11 DEF Mark, Current
  <2>2. SUFFICES ASSUME NEW i \in 1 .. Len(g.entries)
        PROVE  Truthful(h', i)
    BY <1>4, <1>6 DEF Remembers
  <2>3. Truthful(g, i) /\ (i > 1 => i - 1 \in 1 .. Len(g.entries))
    BY <1>1, <2>1 DEF Sound, Remembers
  <2>4. s[i].kind \in {"none", KindOf(s[i].q)}
    BY <1>8, <2>1, <2>3 DEF Truthful
  <2>5. s[i].prev # "none" => i > 1 /\ s[i].prev = KindOf(s[i - 1].q)
    BY <1>8, <2>3 DEF Truthful
  <2> QED
    BY <1>6, <2>4, <2>5 DEF Truthful
<1> QED
  BY <1>7, <1>9, <1>10, <1>11 DEF Sound

-----------------------------------------------------------------------------
(* The operations *)

\* A page left keeps its fetches, as nobody's.
LEMMA LeftNavs ==
    ASSUME NEW v, NEW N \in SUBSET NavFlights
    PROVE  Left(v, N) \subseteq NavFlights
BY DEF Left, NavFlights

\* A search that starts is for the current entry and supersedes any other.
LEMMA StartStep ==
    ASSUME NEW q \in Query, NEW N \in SUBSET NavFlights, Start(q, N),
           Current(h').q = q
    PROVE  /\ searches' \subseteq Query /\ navs' \subseteq NavFlights
           /\ OneSearch' /\ Asked'
<1>1. searches' = {q} /\ view' = "loading" /\ navs' = Left("loading", N)
  BY DEF Start, Supersede
<1> QED
  BY <1>1, LeftNavs DEF OneSearch, Asked

LEMMA SearchForStep ==
    ASSUME BrowserInv, NEW q \in Query, NEW N \in SUBSET NavFlights,
           SearchFor(q, N)
    PROVE  BrowserInv'
<1>1. h' = PushQuery(h, q) /\ Start(q, N) /\ mismarked' = mismarked
  BY DEF SearchFor
<1>2. Sound(PushQuery(h, q), mismarked) /\ Current(PushQuery(h, q)).q = q
  BY PushedSound DEF BrowserInv
<1>3. Sound(h', mismarked') /\ Current(h').q = q
  BY <1>1, <1>2
<1> QED
  BY <1>1, <1>3, StartStep DEF BrowserInv

\* An answer is shown on the current entry; on another query's it strays.
LEMMA AnswerStep ==
    ASSUME BrowserInv, NEW q \in Query, SearchReturns(q) \/ SearchFails(q)
    PROVE  BrowserInv'
<1>1. Sound(h, mismarked) /\ searches \subseteq Query
      /\ navs \in SUBSET NavFlights /\ OneSearch
  BY DEF BrowserInv
<1>2. searches' \subseteq Query /\ OneSearch'
      /\ (strayed' = (strayed \/ q # Current(h).q))
  BY <1>1 DEF SearchReturns, SearchFails, OneSearch
<1>3. CASE SearchReturns(q)
  <2>1. Mark(h, Result(q)) /\ view' = ViewOf(Result(q))
        /\ page' = (IF Result(q) = "none" THEN page ELSE q)
        /\ navs' = Left(view', navs)
    BY <1>3 DEF SearchReturns
  <2>2. Result(q) \in {"tx", "address", "block", "none"}
        /\ (Result(q) # "none" => Result(q) = KindOf(q))
    BY Kinds
  <2>3. Sound(h', mismarked') /\ Current(h').q = Current(h).q
    BY <1>1, <2>1, <2>2, MarkedSound DEF PageKind
  <2>4. Asked'
    BY <1>2, <2>1, <2>2, <2>3 DEF Asked, ViewOf
  <2>5. navs' \subseteq NavFlights
    BY <1>1, <2>1, LeftNavs
  <2> QED
    BY <1>2, <2>3, <2>4, <2>5 DEF BrowserInv
<1>4. CASE SearchFails(q)
  <2>1. view' = "error" /\ navs' = Left("error", navs)
        /\ UNCHANGED <<h, page, mismarked>>
    BY <1>4 DEF SearchFails
  <2>2. navs' \subseteq NavFlights
    BY <1>1, <2>1, LeftNavs
  <2>3. Sound(h', mismarked') /\ Asked'
    BY <1>1, <2>1 DEF Asked
  <2> QED
    BY <1>2, <2>2, <2>3 DEF BrowserInv
<1> QED
  BY <1>3, <1>4

\* The landing page is shown on an entry of its own.
LEMMA LandingStep ==
    ASSUME BrowserInv, NEW g, Sound(g, mismarked), Current(g).q = Home,
           Landing, Mark(g, "home")
    PROVE  BrowserInv'
<1>1. Sound(h', mismarked') /\ Current(h').q = Home
  BY MarkedSound DEF PageKind
<1>2. view' = "landing" /\ navs' = Left("landing", navs)
      /\ searches' = searches
  BY DEF Landing
<1>3. navs' \subseteq NavFlights
  BY <1>2, LeftNavs DEF BrowserInv
<1>4. Asked'
  BY <1>1, <1>2 DEF Asked
<1> QED
  BY <1>1, <1>2, <1>3, <1>4 DEF BrowserInv, OneSearch

LEMMA GoHomeStep ==
    ASSUME BrowserInv, GoHome
    PROVE  BrowserInv'
<1>1. Sound(PushQuery(h, Home), mismarked)
      /\ Current(PushQuery(h, Home)).q = Home
  BY PushedSound DEF BrowserInv
<1> QED
  BY <1>1, LandingStep DEF GoHome

LEMMA TraverseStep ==
    ASSUME BrowserInv, NEW i, Traverse(i)
    PROVE  BrowserInv'
<1> DEFINE g == [h EXCEPT !.at = i]
<1>1. Sound(g, mismarked) /\ Current(g).q \in Query \cup {Home}
  BY MovedSound DEF Traverse, BrowserInv
<1>2. CASE Current(g).q = Home
  <2>1. Landing /\ Mark(g, "home")
    BY <1>2 DEF Traverse
  <2> HIDE DEF g
  <2> QED
    BY <1>1, <1>2, <2>1, LandingStep
<1>3. CASE Current(g).q # Home
  <2>1. Start(Current(g).q, navs) /\ h' = g /\ mismarked' = mismarked
    BY <1>3 DEF Traverse
  <2> HIDE DEF g
  <2>2. Current(g).q \in Query /\ Sound(h', mismarked')
        /\ Current(h').q = Current(g).q
    BY <1>1, <1>3, <2>1
  <2> QED
    BY <2>1, <2>2, StartStep DEF BrowserInv
<1> QED
  BY <1>2, <1>3

\* A page loaded anew has nothing under way but the search for its entry.
LEMMA LoadStep ==
    ASSUME BrowserInv, NEW g, Sound(g, mismarked),
           Current(g).q \in Query \cup {Home}, Load(g)
    PROVE  BrowserInv'
<1>1. navs' = {} /\ navs' \subseteq NavFlights
  BY DEF Load
<1>2. CASE Current(g).q = Home
  <2>1. view' = "landing" /\ searches' = {} /\ Mark(g, "home")
    BY <1>2 DEF Load
  <2>2. Sound(h', mismarked') /\ Current(h').q = Home
    BY <1>2, <2>1, MarkedSound DEF PageKind
  <2> QED
    BY <1>1, <2>1, <2>2 DEF BrowserInv, OneSearch, Asked
<1>3. CASE Current(g).q # Home
  <2>1. view' = "loading" /\ searches' = {Current(g).q} /\ h' = g
        /\ mismarked' = mismarked
    BY <1>3 DEF Load
  <2> QED
    BY <1>1, <1>3, <2>1 DEF BrowserInv, OneSearch, Asked
<1> QED
  BY <1>2, <1>3

LEMMA ReloadStep ==
    ASSUME BrowserInv, NEW i, Reload(i)
    PROVE  BrowserInv'
<1> DEFINE g == [h EXCEPT !.at = i]
<1>1. Sound(g, mismarked) /\ Current(g).q \in Query \cup {Home} /\ Load(g)
  BY MovedSound DEF Reload, BrowserInv
<1> HIDE DEF g
<1> QED
  BY <1>1, LoadStep

LEMMA EnterUrlStep ==
    ASSUME BrowserInv, NEW q \in Query \cup {Home}, EnterUrl(q)
    PROVE  BrowserInv'
<1> DEFINE e == FreshEntry(q)
           g == Append1(h, e)
<1>1. e \in NavEntry /\ e.q = q /\ e.kind = "none" /\ e.prev = "none"
  BY DEF FreshEntry, NavEntry
<1>2. Load(g) /\ e.q # Current(h).q
  BY <1>1 DEF EnterUrl
<1> HIDE DEF e
<1>3. Sound(g, mismarked) /\ Current(g) = e
  BY <1>1, <1>2, AppendedSound DEF BrowserInv
<1> HIDE DEF g
<1> QED
  BY <1>1, <1>2, <1>3, LoadStep

\* The answer of a block's button is pushed and shown.
LEMMA NavStep ==
    ASSUME BrowserInv, NEW n \in navs, NavAnswers(n) \/ NavFails(n)
    PROVE  BrowserInv'
<1>1. n.height \in Height /\ navs \in SUBSET NavFlights
  BY DEF BrowserInv, NavFlights
<1>2. n.height \in Query /\ KindOf(n.height) = "block"
  BY <1>1, Kinds
<1>3. CASE NavFails(n)
  <2>1. SearchFor(n.height, navs \ {n}) /\ navs \ {n} \in SUBSET NavFlights
    BY <1>1, <1>3 DEF NavFails
  <2> QED
    BY <1>2, <2>1, SearchForStep
<1>4. CASE NavAnswers(n)
  <2> DEFINE g == PushQuery(h, n.height)
  <2>1. Mark(g, "block") /\ view' = "block" /\ page' = n.height
        /\ navs' = navs \ {n} /\ searches' = searches
    BY <1>4 DEF NavAnswers
  <2>2. Sound(g, mismarked) /\ Current(g).q = n.height
    BY <1>2, PushedSound DEF BrowserInv
  <2> HIDE DEF g
  <2>3. Sound(h', mismarked') /\ Current(h').q = n.height
    BY <2>1, <2>2, MarkedSound DEF PageKind
  <2>4. Asked'
    BY <1>2, <2>1, <2>3 DEF Asked
  <2> QED
    BY <1>1, <2>1, <2>3, <2>4 DEF BrowserInv, OneSearch
<1> QED
  BY <1>3, <1>4

LEMMA NavigateStep ==
    ASSUME BrowserInv, NEW height \in Height, Navigate(height)
    PROVE  BrowserInv'
<1>1. navs' = navs \cup {[height |-> height, own |-> TRUE]}
      /\ UNCHANGED <<h, view, page, searches, strayed, mismarked>>
  BY DEF Navigate
<1>2. navs' \subseteq NavFlights
  <2>1. [height |-> height, own |-> TRUE] \in NavFlights
    BY DEF NavFlights
  <2> QED
    BY <1>1, <2>1 DEF BrowserInv
<1> QED
  BY <1>1, <1>2 DEF BrowserInv, OneSearch, Asked

LEMMA BrowserInit ==
    ASSUME Init
    PROVE  BrowserInv
<1>1. PICK q \in Query \cup {Home} :
          /\ h = [entries |->
                    <<IF q = Home THEN [FreshEntry(q) EXCEPT !.kind = "home"]
                                  ELSE FreshEntry(q)>>, at |-> 1]
          /\ view = (IF q = Home THEN "landing" ELSE "loading")
          /\ searches = (IF q = Home THEN {} ELSE {q})
  BY DEF Init
<1> DEFINE e == IF q = Home THEN [FreshEntry(q) EXCEPT !.kind = "home"]
                            ELSE FreshEntry(q)
<1>2. e \in NavEntry /\ e.q = q /\ e.prev = "none"
      /\ e.kind \in {"none", KindOf(q)}
  BY Kinds DEF FreshEntry, NavEntry, PageKind
<1>3. h = [entries |-> <<e>>, at |-> 1]
  BY <1>1
<1> HIDE DEF e
<1>4. <<e>> \in Seq(NavEntry) /\ Len(<<e>>) = 1 /\ <<e>>[1] = e
  BY <1>2
<1>5. h.entries = <<e>> /\ h.at = 1 /\ h \in History
  BY <1>3, <1>4 DEF History
<1>6. Sound(h, mismarked)
  BY <1>2, <1>4, <1>5 DEF Sound, IsHistory, Distinct, Remembers, Truthful
<1>7. Current(h).q = q
  BY <1>2, <1>4, <1>5 DEF Current
<1> QED
  BY <1>1, <1>6, <1>7 DEF Init, BrowserInv, OneSearch, Asked

LEMMA BrowserStep ==
    ASSUME BrowserInv, [Next]_vars
    PROVE  BrowserInv'
<1>1. ASSUME NEW q \in Query, Search(q)
      PROVE  BrowserInv'
  <2>1. SearchFor(q, navs) /\ navs \in SUBSET NavFlights
    BY <1>1 DEF Search, BrowserInv
  <2> QED
    BY <2>1, SearchForStep
<1>2. CASE BackButton
  BY <1>2, TraverseStep DEF BackButton
<1>3. CASE BlockMined \/ StatsArrive \/ UNCHANGED vars
  BY <1>3 DEF BlockMined, StatsArrive, vars, BrowserInv, OneSearch, Asked
<1> QED
  BY <1>1, <1>2, <1>3, AnswerStep, GoHomeStep, TraverseStep, ReloadStep,
     EnterUrlStep, NavigateStep, NavStep DEF Next

LEMMA BrowserInductive ==
    Spec => []BrowserInv
BY BrowserInit, BrowserStep, PTL DEF Spec

-----------------------------------------------------------------------------
\* A page shows the answer to its entry's query, and while it loads, that
\* answer and no other is on its way, unless an answer strayed.
THEOREM BrowserShowsAsked ==
    Spec => []ShownIsAsked
<1>1. ASSUME BrowserInv
      PROVE  Cardinality(searches) <= 1
  <2>1. CASE searches = {}
    BY <2>1, FS_EmptySet
  <2>2. CASE searches # {}
    <3>1. PICK q : searches = {q}
      BY <1>1, <2>2 DEF BrowserInv, OneSearch
    <3>2. Cardinality(searches) = 1
      BY <3>1, FS_Singleton
    <3> QED
      BY <3>2
  <2> QED
    BY <2>1, <2>2
<1>2. BrowserInv => ShownIsAsked
  BY <1>1 DEF BrowserInv, Asked, ShownIsAsked
<1> QED
  BY <1>2, BrowserInductive, PTL

\* What an entry says of the one before it is what Back will show, and no two
\* neighbours are the same.
THEOREM BrowserHistorySound ==
    Spec => []HistorySound
<1>1. BrowserInv => HistorySound
  BY DEF BrowserInv, Sound, Distinct, Remembers, Truthful, BackLabel,
     HistorySound
<1> QED
  BY <1>1, BrowserInductive, PTL
=============================================================================
