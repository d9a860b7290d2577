--------------------------- MODULE MempoolProofs ---------------------------
(***************************************************************************)
(* What the shared mempool snapshot promises, for any number of callers    *)
(* and any ages, and for the live cache that reads it (LiveCache.tla).      *)
(***************************************************************************)
EXTENDS LiveCache, TLAPS

USE DEF Version

-----------------------------------------------------------------------------
(* Types *)

\* All variables keep their types; in particular no more is ever announced
\* than has happened.
THEOREM MempoolTypeCorrect == Spec => []TypeOK
<1>1. Init => TypeOK
  <2> SUFFICES ASSUME Init PROVE TypeOK
    OBVIOUS
  <2> USE MempoolAssumption DEF MempoolAssumption, Init
  <2>1. overlapped \in [Caller -> BOOLEAN]
    BY Zenon
  <2>2. pc \in [Caller -> {"idle", "calling", "answered", "reading"}]
    BY Zenon
  <2>3. /\ myGen \in [Caller -> 0 .. MaxGen]
        /\ raw \in [Caller -> Version]
        /\ flightAge \in [Caller -> 0 .. Stuck]
    OBVIOUS
  <2>4. /\ node \in Version /\ heard \in 0 .. node
        /\ age \in 0 .. MaxAge /\ fetchAge \in 0 .. Stuck
        /\ gen \in 0 .. MaxGen
    OBVIOUS
  <2>5. /\ dirty \in BOOLEAN /\ fetching \in BOOLEAN
        /\ regressable \in BOOLEAN /\ cleared \in BOOLEAN
        /\ entries \in Version \cup {None} /\ queue \in Version \cup {None}
    BY Zenon
  <2> QED
    BY <2>1, <2>2, <2>3, <2>4, <2>5, Zenon DEF TypeOK
<1>2. TypeOK /\ [Next]_vars => TypeOK'
  <2> SUFFICES ASSUME TypeOK, [Next]_vars
               PROVE  TypeOK'
    OBVIOUS
  <2> USE MempoolAssumption DEF MempoolAssumption
  <2>1. CASE NodeChanges
    BY <2>1 DEF NodeChanges, ageVars, cacheVars, callVars, history, TypeOK
  <2>2. CASE MarkDirty
    BY <2>2 DEF MarkDirty, Dirtied, Hears, callVars, history, TypeOK
  <2>3. CASE BlockInvalidates
    BY <2>3 DEF BlockInvalidates, Invalidate, Dirtied, Hears, callVars,
                history, TypeOK
  <2>4. CASE MissInvalidates
    BY <2>4 DEF MissInvalidates, Invalidate, Dirtied, callVars, history, TypeOK
  <2>5. CASE Tick
    BY <2>5 DEF Tick, nodeVars, cacheVars, callVars, history, TypeOK
  <2>6. ASSUME NEW c \in Caller, CallServed(c)
        PROVE  TypeOK'
    BY <2>6 DEF CallServed, nodeVars, ageVars, cacheVars, history, TypeOK
  <2>7. ASSUME NEW c \in Caller, CallFetches(c)
        PROVE  TypeOK'
    <3>1. 0 \in 0 .. Stuck /\ gen \in 0 .. MaxGen
      BY DEF TypeOK
    <3>2. /\ flightAge' \in [Caller -> 0 .. Stuck]
          /\ myGen' \in [Caller -> 0 .. MaxGen]
      BY <2>7, <3>1 DEF CallFetches, FetchDue, TypeOK
    <3>3. /\ pc' \in [Caller -> {"idle", "calling", "answered", "reading"}]
          /\ cleared' \in BOOLEAN /\ fetching' \in BOOLEAN
          /\ UNCHANGED <<dirty, regressable, entries, queue>>
      BY <2>7, Zenon DEF CallFetches, FetchDue, TypeOK
    <3>4. UNCHANGED <<node, heard, age, gen, raw, overlapped>>
          /\ fetchAge' = 0
      BY <2>7 DEF CallFetches, FetchDue, nodeVars
    <3> QED
      BY <3>1, <3>2, <3>3, <3>4 DEF TypeOK
  <2>8. ASSUME NEW c \in Caller, NodeAnswers(c)
        PROVE  TypeOK'
    BY <2>8 DEF NodeAnswers, nodeVars, ageVars, cacheVars, history, TypeOK
  <2>9. ASSUME NEW c \in Caller, FetchFails(c)
        PROVE  TypeOK'
    <3>1. cleared' \in BOOLEAN
      BY <2>9, Zenon DEF FetchFails, Ends
    <3>2. /\ UNCHANGED <<node, heard, age, fetchAge, dirty, gen, entries,
                          queue, regressable>>
          /\ fetching' \in BOOLEAN
      BY <2>9 DEF FetchFails, nodeVars, ageVars
    <3>3. /\ pc' \in [Caller -> {"idle", "calling", "answered", "reading"}]
          /\ overlapped' \in [Caller -> BOOLEAN]
      BY <2>9, Zenon DEF FetchFails, Ends, TypeOK
    <3>4. /\ myGen' \in [Caller -> 0 .. MaxGen] /\ raw' \in [Caller -> Version]
          /\ flightAge' \in [Caller -> 0 .. Stuck]
      BY <2>9 DEF FetchFails, Ends, TypeOK
    <3> QED
      BY <3>1, <3>2, <3>3, <3>4 DEF TypeOK
  <2>10. ASSUME NEW c \in Caller, Install(c)
         PROVE  TypeOK'
    <3>1. overlapped' \in [Caller -> BOOLEAN] /\ regressable' \in BOOLEAN
      <4>1. overlapped' = [d \in Caller |-> d \in InFlight \ {c}]
        BY <2>10, Zenon DEF Install, Installed
      <4>2. regressable' \in BOOLEAN
        BY <2>10, Zenon DEF Install, Installed, TypeOK
      <4> DEFINE o(d) == d \in InFlight \ {c}
      <4>3. \A d \in Caller : o(d) \in BOOLEAN
        OBVIOUS
      <4> HIDE DEF o
      <4>4. [d \in Caller |-> o(d)] \in [Caller -> BOOLEAN]
        BY <4>3, Zenon
      <4> QED
        BY <4>1, <4>2, <4>4, Zenon DEF o
    <3>2. dirty' \in BOOLEAN /\ cleared' \in BOOLEAN
      BY <2>10, Zenon DEF Install, Installed, Ends
    <3>3. /\ fetching' \in BOOLEAN
          /\ pc' \in [Caller -> {"idle", "calling", "answered", "reading"}]
          /\ entries' \in Version \cup {None}
          /\ queue' \in Version \cup {None}
      BY <2>10, Zenon DEF Install, Installed, Ends, TypeOK
    <3>4. /\ node' \in Version /\ heard' \in 0 .. node'
          /\ age' \in 0 .. MaxAge /\ fetchAge' \in 0 .. Stuck
          /\ gen' \in 0 .. MaxGen
          /\ myGen' \in [Caller -> 0 .. MaxGen]
          /\ raw' \in [Caller -> Version]
          /\ flightAge' \in [Caller -> 0 .. Stuck]
      BY <2>10 DEF Install, Installed, Ends, nodeVars, TypeOK
    <3> QED
      BY <3>1, <3>2, <3>3, <3>4, Zenon DEF TypeOK
  <2>11. ASSUME NEW c \in Caller, Snapshot(c)
         PROVE  TypeOK'
    BY <2>11 DEF Snapshot, nodeVars, ageVars, cacheVars, history, TypeOK
  <2>12. ASSUME NEW c \in Caller, SnapshotAndQueue(c)
         PROVE  TypeOK'
    BY <2>12 DEF SnapshotAndQueue, nodeVars, ageVars, history, TypeOK
  <2>13. CASE UNCHANGED vars
    BY <2>13 DEF vars, nodeVars, ageVars, cacheVars, callVars, history, TypeOK
  <2> QED
    BY <2>1, <2>2, <2>3, <2>4, <2>5, <2>6, <2>7, <2>8, <2>9, <2>10, <2>11,
       <2>12, <2>13 DEF Next, Step, Call, Read
<1> QED
  BY <1>1, <1>2, PTL DEF Spec

-----------------------------------------------------------------------------
(* Overlapping fetches *)

\* While m.fetching is set, it was set by the fetch that began last: when that
\* one counts as stuck, all do.  While it is not set, no young fetch is under
\* way but beside the end of another.
FlightInv ==
    /\ FlagMeansFetch
    /\ fetching => \A d \in InFlight : fetchAge <= flightAge[d]
    /\ ~fetching /\ Young # {} => cleared

\* What a fetch under way may be used for.  Its answer is at least as new as
\* the snapshot unless another fetch was installed meanwhile; if nothing was
\* invalidated since it began it holds all that was announced, and otherwise
\* the snapshot is dirty (again, unless another install cleaned it).
FetchInv ==
    \A c \in InFlight :
        /\ myGen[c] # gen /\ ~overlapped[c] => dirty
        /\ pc[c] = "answered" /\ myGen[c] = gen => raw[c] >= heard
        /\ pc[c] = "answered" /\ ~overlapped[c] /\ entries # None
            => raw[c] >= entries

SnapshotInv ==
    /\ FetchInv
    /\ CleanUnlessOverlapped
    /\ ReadsAreConsistent
    /\ entries # None => entries <= node
    /\ \A c \in Caller : myGen[c] <= gen /\ raw[c] <= node

LEMMA FlightInit == Init => FlightInv
BY DEF Init, FlightInv, FlagMeansFetch, InFlight, Young

\* A fetch that ends takes the flag along, and notes the young ones left.
LEMMA EndKeepsFlightInv ==
    ASSUME TypeOK, FlightInv, NEW c \in Caller, c \in InFlight,
           NEW next \in {"idle", "reading"}, Ends(c, next),
           fetching' = FALSE
    PROVE  FlightInv'
<1>1. Young' \subseteq Young \ {c}
  BY DEF Ends, Young, InFlight, TypeOK
<1> QED
  BY <1>1 DEF Ends, FlightInv, FlagMeansFetch

LEMMA FlightStep ==
    ASSUME TypeOK, FlightInv, [Next]_vars
    PROVE  FlightInv'
<1> USE DEF FlightInv, FlagMeansFetch
<1>1. ASSUME UNCHANGED <<fetching, fetchAge, flightAge, cleared>>,
             InFlight' = InFlight
      PROVE  FlightInv'
  BY <1>1 DEF Young
<1>2. ASSUME NEW c \in Caller, CallServed(c) \/ NodeAnswers(c) \/ Read(c)
      PROVE  FlightInv'
  <2>1. InFlight' = InFlight
    BY <1>2 DEF CallServed, NodeAnswers, Read, Snapshot, SnapshotAndQueue,
                InFlight, TypeOK
  <2> QED
    BY <1>1, <1>2, <2>1 DEF CallServed, NodeAnswers, Read, Snapshot,
       SnapshotAndQueue, ageVars, cacheVars, history
<1>3. ASSUME NEW c \in Caller, CallFetches(c)
      PROVE  FlightInv'
  <2>1. fetching' /\ fetchAge' = 0 /\ c \in InFlight'
    BY <1>3 DEF CallFetches, FetchDue, InFlight, TypeOK
  <2>2. \A d \in Caller : flightAge'[d] \in Nat
    BY <1>3, MempoolAssumption
       DEF MempoolAssumption, CallFetches, FetchDue, TypeOK
  <2> QED
    BY <2>1, <2>2 DEF InFlight
<1>4. ASSUME NEW c \in Caller, FetchFails(c)
      PROVE  FlightInv'
  BY <1>4, EndKeepsFlightInv DEF FetchFails
<1>5. ASSUME NEW c \in Caller, Install(c)
      PROVE  FlightInv'
  BY <1>5, EndKeepsFlightInv DEF Install, Installed, InFlight
<1>6. CASE NodeChanges \/ MarkDirty \/ BlockInvalidates \/ MissInvalidates
  BY <1>1, <1>6 DEF NodeChanges, MarkDirty, BlockInvalidates,
     MissInvalidates, Invalidate, Dirtied, ageVars, cacheVars, callVars,
     history, InFlight
<1>7. CASE Tick
  <2>1. InFlight' = InFlight /\ UNCHANGED <<fetching, cleared>>
    BY <1>7 DEF Tick, cacheVars, callVars, InFlight
  <2>2. /\ fetchAge' = IF fetchAge < Stuck THEN fetchAge + 1 ELSE fetchAge
        /\ \A d \in Caller :
              flightAge'[d] = IF flightAge[d] < Stuck THEN flightAge[d] + 1
                                                      ELSE flightAge[d]
    BY <1>7 DEF Tick
  <2>3. /\ Stuck \in Nat /\ fetchAge \in 0 .. Stuck
        /\ \A d \in Caller : flightAge[d] \in 0 .. Stuck
    BY MempoolAssumption DEF MempoolAssumption, TypeOK
  <2>4. ASSUME fetching, NEW d \in InFlight
        PROVE  fetchAge' <= flightAge'[d]
    BY <2>2, <2>3, <2>4 DEF InFlight
  <2>5. Young' \subseteq Young
    BY <2>1, <2>2, <2>3 DEF Young, InFlight
  <2> QED
    BY <2>1, <2>4, <2>5
<1>8. CASE UNCHANGED vars
  BY <1>1, <1>8 DEF vars, ageVars, cacheVars, callVars, history, InFlight
<1> QED
  BY <1>2, <1>3, <1>4, <1>5, <1>6, <1>7, <1>8 DEF Next, Step, Call

\* m.fetching is never left set by a fetch that is over.
THEOREM MempoolFlagCorrect == Spec => []FlagMeansFetch
<1>1. FlightInv => FlagMeansFetch
  BY DEF FlightInv
<1> QED
  BY <1>1, FlightInit, FlightStep, MempoolTypeCorrect, PTL DEF Spec

\* A fetch begins beside one that the node is not stuck on only on a cold
\* start, or after yet another fetch, ending, cleared the flag.
THEOREM MempoolFlightsCorrect == Spec => SingleFlight
<1>1. ASSUME TypeOK, FlightInv, [Next]_vars
      PROVE  [\A c \in Caller :
                 Begins(c) => Young = {} \/ entries = None \/ cleared]_vars
  <2>1. SUFFICES ASSUME NEW c \in Caller, Begins(c), Next,
                        entries # None, ~cleared
                 PROVE  Young = {}
    BY <1>1 DEF Begins, vars, callVars
  <2>2. PICK d \in Caller : CallFetches(d)
    <3>1. ASSUME NEW d \in Caller, Step(d), ~CallFetches(d)
          PROVE  pc'[c] # "calling"
      BY <1>1, <2>1, <3>1 DEF Begins, Step, Call, CallServed, NodeAnswers,
         FetchFails, Install, Installed, Ends, Read, Snapshot,
         SnapshotAndQueue, TypeOK
    <3>2. ASSUME \/ NodeChanges \/ MarkDirty \/ BlockInvalidates
                 \/ MissInvalidates \/ Tick
          PROVE  pc' = pc
      BY <3>2 DEF NodeChanges, MarkDirty, BlockInvalidates, MissInvalidates,
         Invalidate, Dirtied, Tick, callVars
    <3> QED
      BY <2>1, <3>1, <3>2 DEF Begins, Next
  <2>3. ~fetching \/ ~(fetchAge < Stuck)
    BY <2>1, <2>2 DEF CallFetches, FetchDue, ServedStale
  <2>4. CASE fetching
    <3>1. Stuck \in Nat /\ fetchAge \in 0 .. Stuck
          /\ \A e \in Caller : flightAge[e] \in 0 .. Stuck
      BY <1>1, MempoolAssumption DEF MempoolAssumption, TypeOK
    <3> QED
      BY <1>1, <2>3, <2>4, <3>1 DEF FlightInv, Young, InFlight
  <2>5. CASE ~fetching
    BY <1>1, <2>1, <2>5 DEF FlightInv
  <2> QED
    BY <2>4, <2>5
<1> QED
  BY <1>1, FlightInit, FlightStep, MempoolTypeCorrect, PTL
     DEF Spec, SingleFlight

-----------------------------------------------------------------------------
(* What an install may do to the snapshot *)

LEMMA SnapshotInit == Init => SnapshotInv
BY DEF Init, SnapshotInv, FetchInv, InFlight, CleanUnlessOverlapped,
       ReadsAreConsistent

\* A step that neither begins nor ends a fetch preserves the invariant: new
\* announcements dirty the snapshot and outdate every fetch under way.
LEMMA NewsKeepsSnapshotInv ==
    ASSUME TypeOK, SnapshotInv,
           MarkDirty \/ BlockInvalidates \/ MissInvalidates
    PROVE  SnapshotInv'
<1> USE DEF MarkDirty, BlockInvalidates, MissInvalidates, Invalidate, Dirtied,
            callVars, history
<1>1. dirty' /\ gen' = gen + 1 /\ node' = node
  OBVIOUS
<1>2. UNCHANGED <<entries, queue, pc, myGen, raw, overlapped, regressable>>
  OBVIOUS
<1>3. \A c \in Caller : myGen'[c] # gen' /\ myGen'[c] <= gen'
  BY <1>1, <1>2 DEF SnapshotInv, TypeOK
<1>4. FetchInv'
  BY <1>1, <1>2, <1>3 DEF SnapshotInv, FetchInv, InFlight
<1>5. CleanUnlessOverlapped' /\ ReadsAreConsistent'
  BY <1>1, <1>2 DEF SnapshotInv, CleanUnlessOverlapped, ReadsAreConsistent
<1> QED
  BY <1>1, <1>2, <1>3, <1>4, <1>5 DEF SnapshotInv

LEMMA InstallKeepsSnapshotInv ==
    ASSUME TypeOK, SnapshotInv, NEW c \in Caller, Install(c)
    PROVE  SnapshotInv'
<1> USE DEF Install, Installed, Ends
<1>1. InFlight' = InFlight \ {c}
  BY DEF InFlight, TypeOK
<1>2. \A d \in InFlight' : overlapped'[d] /\ d # c
  BY <1>1 DEF InFlight
<1>3. /\ UNCHANGED <<node, heard, gen>>
      /\ entries' = raw[c] /\ entries' # None
      /\ queue' = None
      /\ \A d \in Caller \ {c} : myGen'[d] = myGen[d] /\ raw'[d] = raw[d]
      /\ \A d \in Caller : myGen'[d] <= gen /\ raw'[d] <= node
  BY MempoolAssumption DEF MempoolAssumption, SnapshotInv, nodeVars, TypeOK
<1>4. c \in InFlight /\ pc[c] = "answered"
  BY DEF InFlight
<1>5. \A d \in InFlight' : pc[d] = pc'[d] /\ d \in InFlight
  BY <1>1 DEF TypeOK, InFlight
<1>6. FetchInv'
  BY <1>2, <1>3, <1>5 DEF SnapshotInv, FetchInv
<1>7. CleanUnlessOverlapped'
  <2>1. CASE myGen[c] = gen
    BY <2>1, <1>3, <1>4 DEF SnapshotInv, FetchInv, CleanUnlessOverlapped
  <2>2. CASE myGen[c] # gen /\ ~overlapped[c]
    BY <2>2, <1>3, <1>4 DEF SnapshotInv, FetchInv, CleanUnlessOverlapped
  <2>3. CASE overlapped[c]
    BY <2>3 DEF CleanUnlessOverlapped
  <2> QED
    BY <2>1, <2>2, <2>3
<1>8. ReadsAreConsistent'
  BY <1>3 DEF ReadsAreConsistent
<1> QED
  BY <1>3, <1>6, <1>7, <1>8 DEF SnapshotInv

LEMMA SnapshotStep ==
    ASSUME TypeOK, SnapshotInv, [Next]_vars
    PROVE  SnapshotInv'
<1>1. ASSUME UNCHANGED <<node, heard, dirty, gen, entries, queue, callVars,
                         regressable>>
      PROVE  SnapshotInv'
  BY <1>1 DEF callVars, SnapshotInv, FetchInv, InFlight,
              CleanUnlessOverlapped, ReadsAreConsistent
<1>2. CASE NodeChanges
  BY <1>2 DEF NodeChanges, cacheVars, callVars, history, SnapshotInv,
              FetchInv, InFlight, CleanUnlessOverlapped, ReadsAreConsistent,
              TypeOK
<1>3. ASSUME NEW c \in Caller, CallServed(c)
      PROVE  SnapshotInv'
  <2>1. InFlight' = InFlight /\ \A d \in InFlight : pc'[d] = pc[d]
    BY <1>3 DEF CallServed, InFlight, TypeOK
  <2>2. entries # None
    BY <1>3 DEF CallServed, Fresh, ServedStale
  <2>3. UNCHANGED <<nodeVars, cacheVars, myGen, raw, overlapped, regressable>>
    BY <1>3 DEF CallServed, history
  <2> QED
    BY <2>1, <2>2, <2>3 DEF nodeVars, cacheVars, SnapshotInv, FetchInv,
       CleanUnlessOverlapped, ReadsAreConsistent
<1>4. ASSUME NEW c \in Caller, CallFetches(c)
      PROVE  SnapshotInv'
  <2>1. /\ UNCHANGED <<node, heard, dirty, gen, entries, queue, raw,
                        overlapped, regressable>>
        /\ myGen' = [myGen EXCEPT ![c] = gen]
        /\ pc' = [pc EXCEPT ![c] = "calling"]
    BY <1>4 DEF CallFetches, FetchDue, nodeVars
  <2>2. myGen'[c] = gen' /\ pc'[c] = "calling"
    BY <2>1 DEF TypeOK
  <2>3. \A d \in InFlight' \ {c} :
            /\ d \in InFlight /\ pc'[d] = pc[d]
            /\ myGen'[d] = myGen[d] /\ overlapped'[d] = overlapped[d]
    BY <2>1 DEF InFlight, TypeOK
  <2>4. FetchInv'
    BY <2>1, <2>2, <2>3 DEF SnapshotInv, FetchInv
  <2>5. \A d \in Caller : myGen'[d] <= gen' /\ raw'[d] <= node'
    BY <2>1 DEF SnapshotInv, TypeOK
  <2> QED
    BY <2>1, <2>4, <2>5 DEF SnapshotInv, CleanUnlessOverlapped,
       ReadsAreConsistent, TypeOK
<1>5. ASSUME NEW c \in Caller, NodeAnswers(c)
      PROVE  SnapshotInv'
  <2>1. /\ UNCHANGED <<node, heard, dirty, gen, entries, queue, myGen,
                        overlapped, regressable>>
        /\ pc' = [pc EXCEPT ![c] = "answered"]
        /\ raw' = [raw EXCEPT ![c] = node]
    BY <1>5 DEF NodeAnswers, nodeVars, cacheVars, history
  <2>2. InFlight' = InFlight /\ raw'[c] = node
    BY <1>5, <2>1 DEF NodeAnswers, InFlight, TypeOK
  <2>3. \A d \in InFlight \ {c} : raw'[d] = raw[d] /\ pc'[d] = pc[d]
    BY <2>1 DEF InFlight, TypeOK
  <2>4. node >= heard /\ (entries # None => node >= entries)
    BY DEF SnapshotInv, TypeOK
  <2>5. FetchInv'
    BY <2>1, <2>2, <2>3, <2>4 DEF SnapshotInv, FetchInv
  <2>6. \A d \in Caller : myGen'[d] <= gen' /\ raw'[d] <= node'
    BY <2>1 DEF SnapshotInv, TypeOK
  <2> QED
    BY <2>1, <2>5, <2>6 DEF SnapshotInv, CleanUnlessOverlapped,
       ReadsAreConsistent, TypeOK
<1>6. ASSUME NEW c \in Caller, FetchFails(c)
      PROVE  SnapshotInv'
  <2>1. /\ UNCHANGED <<node, heard, dirty, gen, entries, queue, regressable>>
        /\ pc' = [pc EXCEPT ![c] = "idle"]
        /\ myGen' = [myGen EXCEPT ![c] = 0]
        /\ raw' = [raw EXCEPT ![c] = 0]
        /\ overlapped' = [overlapped EXCEPT ![c] = FALSE]
    BY <1>6 DEF FetchFails, Ends, nodeVars
  <2>2. \A d \in InFlight' :
            /\ d \in InFlight /\ d # c /\ pc'[d] = pc[d]
            /\ myGen'[d] = myGen[d] /\ raw'[d] = raw[d]
            /\ overlapped'[d] = overlapped[d]
    BY <2>1 DEF InFlight, TypeOK
  <2>3. FetchInv'
    BY <2>1, <2>2 DEF SnapshotInv, FetchInv
  <2>4. \A d \in Caller : myGen'[d] <= gen' /\ raw'[d] <= node'
    BY <2>1, MempoolAssumption DEF MempoolAssumption, SnapshotInv, TypeOK
  <2> QED
    BY <2>1, <2>3, <2>4 DEF SnapshotInv, CleanUnlessOverlapped,
       ReadsAreConsistent, TypeOK
<1>7. ASSUME NEW c \in Caller, Read(c)
      PROVE  SnapshotInv'
  <2>1. /\ UNCHANGED <<node, heard, dirty, gen, entries, myGen, raw,
                        overlapped, regressable>>
        /\ pc' = [pc EXCEPT ![c] = "idle"]
        /\ queue' \in {queue, entries}
    BY <1>7 DEF Read, Snapshot, SnapshotAndQueue, nodeVars, cacheVars, history
  <2>2. \A d \in InFlight' : d \in InFlight /\ pc'[d] = pc[d]
    BY <2>1 DEF InFlight, TypeOK
  <2> QED
    BY <2>1, <2>2 DEF SnapshotInv, FetchInv, CleanUnlessOverlapped,
       ReadsAreConsistent, TypeOK
<1>8. CASE Tick \/ UNCHANGED vars
  BY <1>1, <1>8 DEF Tick, vars, nodeVars, cacheVars, callVars, history
<1> QED
  BY <1>2, <1>3, <1>4, <1>5, <1>6, <1>7, <1>8, NewsKeepsSnapshotInv,
     InstallKeepsSnapshotInv DEF Next, Step, Call

\* Callers are only ever handed a snapshot that exists, with the histogram of
\* that very snapshot; and a clean snapshot holds everything announced,
\* unless it was installed by a fetch that another install had overlapped.
THEOREM MempoolSnapshotCorrect ==
    Spec => [](ReadsAreConsistent /\ CleanUnlessOverlapped)
<1>1. SnapshotInv => ReadsAreConsistent /\ CleanUnlessOverlapped
  BY DEF SnapshotInv
<1> QED
  BY <1>1, SnapshotInit, SnapshotStep, MempoolTypeCorrect, PTL DEF Spec

\* Whatever a reader is handed exists and is paired with the histogram of
\* that very snapshot.
THEOREM MempoolReadsConsistent ==
    Spec => []ReadsAreConsistent
BY MempoolSnapshotCorrect, PTL

\* While no install overlaps another, readers never see the mempool go back
\* to an older state.
THEOREM MempoolMovesForward == Spec => ForwardUnlessOverlapped
<1>1. ASSUME TypeOK, SnapshotInv, [Next]_vars
      PROVE  [entries # None /\ ~regressable' => entries' >= entries]_vars
  <2>1. ASSUME NEW c \in Caller, Install(c), entries # None, ~regressable'
        PROVE  entries' >= entries
    <3>1. c \in InFlight /\ pc[c] = "answered" /\ ~overlapped[c]
      BY <2>1 DEF Install, Installed, InFlight
    <3>2. entries' = raw[c]
      BY <2>1 DEF Install, Installed
    <3> QED
      BY <1>1, <2>1, <3>1, <3>2 DEF SnapshotInv, FetchInv
  <2>2. ASSUME UNCHANGED entries, entries # None
        PROVE  entries' >= entries
    BY <1>1, <2>2, MempoolAssumption DEF MempoolAssumption, TypeOK
  <2> QED
    BY <1>1, <2>1, <2>2 DEF Next, Step, Call, Read, NodeChanges, MarkDirty,
       BlockInvalidates, MissInvalidates, Invalidate, Dirtied, Tick,
       CallServed, CallFetches, FetchDue, NodeAnswers, FetchFails, Snapshot,
       SnapshotAndQueue, cacheVars
<1> QED
  BY <1>1, SnapshotInit, SnapshotStep, MempoolTypeCorrect, PTL
     DEF Spec, ForwardUnlessOverlapped

-----------------------------------------------------------------------------
(* The live cache as a caller *)

\* Every step of the live cache is one the snapshot allows, or none of it.
LEMMA FeedStepAllowed ==
    ASSUME [FeedNext]_feedVars
    PROVE  [Next]_vars
<1>1. ASSUME NEW r \in Caller, RefresherWaits(r)
      PROVE  Next
  BY <1>1 DEF RefresherWaits, Next, Step
<1>2. ASSUME NEW r \in Caller, RefresherReads(r)
      PROVE  Next
  BY <1>2 DEF RefresherReads, Next, Step, Read
<1>3. ASSUME NEW r \in Caller, RefresherFails(r)
      PROVE  Next
  BY <1>3 DEF RefresherFails, Next, Step
<1>4. ASSUME NEW r \in Caller, LiveInstall(r) \/ BlockCountFails(r)
      PROVE  UNCHANGED vars
  BY <1>4 DEF LiveInstall, Installs, BlockCountFails
<1>5. CASE FeedTick \/ NodeMoves \/ Announced
  BY <1>5 DEF FeedTick, NodeMoves, Announced, Next
<1>6. CASE RunLiveRefresh \/ UNCHANGED feedVars
  BY <1>6 DEF RunLiveRefresh, feedVars
<1> QED
  BY <1>1, <1>2, <1>3, <1>4, <1>5, <1>6 DEF FeedNext, Refresh, Fails

\* The live cache uses the snapshot as any caller may, so that all the
\* theorems about the snapshot hold of what the cache is served.
THEOREM LiveCacheUsesSnapshot ==
    FeedSpec => Spec
<1>1. FeedInit => Init
  BY DEF FeedInit
<1> QED
  BY <1>1, FeedStepAllowed, PTL DEF FeedSpec, Spec

\* A feed, once computed, never goes away: when a part of a recompute fails,
\* its feed keeps the value it had.
THEOREM LiveCacheKeepsFeeds ==
    FeedSpec => FeedsStay
<1>1. ASSUME [FeedNext]_feedVars
      PROVE  [\A f \in Feed : live[f] # None => live'[f] # None]_feedVars
  <2>1. ASSUME NEW r \in Caller, LiveInstall(r), NEW f \in Feed,
               live[f] # None
        PROVE  live'[f] # None
    <3>1. live' = [g \in Feed |-> IF got[r][g] = None THEN live[g]
                                                     ELSE got[r][g]]
      BY <2>1 DEF LiveInstall, Installs
    <3> QED
      BY <2>1, <3>1
  <2>2. ASSUME NEW r \in Caller, RefresherReads(r)
        PROVE  live' = live
    BY <2>2 DEF RefresherReads, Enters
  <2>3. ASSUME NEW r \in Caller,
               RefresherWaits(r) \/ RefresherFails(r) \/ BlockCountFails(r)
        PROVE  live' = live
    BY <2>3 DEF RefresherWaits, RefresherFails, BlockCountFails, Enters,
       liveVars
  <2>4. CASE FeedTick \/ NodeMoves \/ Announced \/ RunLiveRefresh
    BY <2>4 DEF FeedTick, NodeMoves, Announced, RunLiveRefresh,
       LiveSnapshot, liveVars
  <2> QED
    BY <1>1, <2>1, <2>2, <2>3, <2>4 DEF FeedNext, Refresh, Fails
<1> QED
  BY <1>1, PTL DEF FeedSpec, FeedsStay
=============================================================================
