------------------------------ MODULE Mempool ------------------------------
(***************************************************************************)
(* The shared mempool snapshot (internal/explorer/mempool.go): a cache of  *)
(* getrawmempoolverbose that concurrent callers refresh on demand.  The    *)
(* RPC runs with no lock held, so invalidations, other callers and even    *)
(* other fetches land between its start and its install.                   *)
(*                                                                         *)
(* The node's mempool is reduced to a version number that every change     *)
(* advances; `heard' is the version the notifications processed so far     *)
(* announce.  Time is counted in ticks of snapshotMinAge's unit and capped *)
(* where the code stops telling values apart.                              *)
(***************************************************************************)
EXTENDS Naturals

CONSTANTS
    Caller,       \* goroutines that read the snapshot
    Slow,         \* callers whose RPC the node may strand forever
    MinAge,       \* snapshotMinAge
    MaxAge,       \* snapshotMaxAge; also the age of the zero time
    Stuck,        \* fetchStuck
    None,         \* a nil map
    MaxVersion,   \* bound on the changes of the node's mempool
    MaxGen        \* bound on the invalidations

ASSUME MempoolAssumption ==
    /\ Slow \subseteq Caller
    /\ MinAge \in Nat /\ MaxAge \in Nat /\ MinAge <= MaxAge
    /\ Stuck \in Nat
    /\ MaxVersion \in Nat /\ MaxGen \in Nat
    /\ None \notin Nat

VARIABLES
    node,          \* version of the node's mempool
    heard,         \* the version notified so far
    age,           \* time since m.fetched, at most MaxAge
    dirty,         \* m.dirty
    gen,           \* m.gen
    fetching,      \* m.fetching
    fetchAge,      \* time since m.fetchStarted, at most Stuck
    entries,       \* version of m.entries, or None
    queue,         \* version of the snapshot m.queue was derived from, or None
    pc,            \* where every caller is in refresh and after it
    myGen,         \* refresh's local gen
    raw,           \* the version the node answered with
    overlapped,    \* history: another fetch was installed during this one
    regressable,   \* history: the installed fetch was an overlapped one
    flightAge,     \* history: time since a caller's own fetch began, at most
                   \* Stuck; m.fetchStarted is the one of the last to begin
    cleared        \* history: since the last fetch began one has ended, and
                   \* cleared m.fetching, beside one not stuck yet

nodeVars  == <<node, heard>>
ageVars   == <<age, fetchAge>>
cacheVars == <<dirty, gen, fetching, entries, queue>>
callVars  == <<pc, myGen, raw, overlapped>>
history   == <<regressable, flightAge, cleared>>
vars == <<nodeVars, ageVars, cacheVars, callVars, history>>

-----------------------------------------------------------------------------
Version == 0 .. MaxVersion

\* refresh's two early returns, under the lock.
Fresh == entries # None /\ age < MaxAge /\ ~(dirty /\ age >= MinAge)

\* Deviation: a fetch in flight is waited for however long it takes.
ServedStaleForever == fetching /\ entries # None

ServedStale == fetching /\ fetchAge < Stuck /\ entries # None

InFlight == {c \in Caller : pc[c] \in {"calling", "answered"}}

\* Fetches that began less than fetchStuck ago.
Young == {c \in InFlight : flightAge[c] < Stuck}

-----------------------------------------------------------------------------
(* The node and its notifications *)

NodeChanges ==
    /\ node < MaxVersion
    /\ node' = node + 1
    /\ UNCHANGED <<heard, ageVars, cacheVars, callVars, history>>

\* m.dirty and m.gen as both invalidations set them.
Dirtied ==
    /\ gen < MaxGen
    /\ dirty' = TRUE
    /\ gen' = gen + 1
    /\ UNCHANGED <<node, fetchAge, fetching, entries, queue, callVars,
                   history>>

\* The notification of a change that has happened, in order.
Hears ==
    /\ heard < node
    /\ heard' = heard + 1

\* NoteArrival: a transaction was accepted.
MarkDirty == Dirtied /\ Hears /\ UNCHANGED age

\* Deviation: the generation of fetches in flight stays current.
InvalidateKeepsGen ==
    /\ gen < MaxGen
    /\ dirty' = TRUE
    /\ gen' = gen
    /\ age' = MaxAge
    /\ UNCHANGED <<node, fetchAge, fetching, entries, queue, callVars,
                   history>>

\* Invalidate zeroes m.fetched.
Invalidate == Dirtied /\ age' = MaxAge

\* OnBlock: a block connected.
BlockInvalidates == Invalidate /\ Hears

\* derivePending: a caller misses a transaction in the snapshot.
MissInvalidates == Invalidate /\ UNCHANGED heard

-----------------------------------------------------------------------------
(* refresh: the check, the RPC, the install *)

CallServed(c) ==
    /\ pc[c] = "idle"
    /\ Fresh \/ ServedStale
    /\ pc' = [pc EXCEPT ![c] = "reading"]
    /\ UNCHANGED <<nodeVars, ageVars, cacheVars, myGen, raw, overlapped,
                   history>>

\* The check of a call that will fetch, and refresh's locals.
FetchDue(c) ==
    /\ pc[c] = "idle"
    /\ ~Fresh /\ ~ServedStale
    /\ myGen' = [myGen EXCEPT ![c] = gen]
    /\ pc' = [pc EXCEPT ![c] = "calling"]
    /\ flightAge' = [flightAge EXCEPT ![c] = 0]
    /\ cleared' = FALSE
    /\ UNCHANGED <<nodeVars, age, dirty, gen, entries, queue, raw,
                   overlapped, regressable>>

\* Deviation: the fetch is not marked as under way.
FetchesUnmarked(c) == FetchDue(c) /\ UNCHANGED <<fetching, fetchAge>>

CallFetches(c) == FetchDue(c) /\ fetching' = TRUE /\ fetchAge' = 0

\* The node reads its mempool; the answer may be long on its way.
NodeAnswers(c) ==
    /\ pc[c] = "calling"
    /\ raw' = [raw EXCEPT ![c] = node]
    /\ pc' = [pc EXCEPT ![c] = "answered"]
    /\ UNCHANGED <<nodeVars, ageVars, cacheVars, myGen, overlapped,
                   history>>

\* A fetch is over and its locals are gone.
Ends(c, next) ==
    /\ pc' = [pc EXCEPT ![c] = next]
    /\ myGen' = [myGen EXCEPT ![c] = 0]
    /\ raw' = [raw EXCEPT ![c] = 0]
    /\ flightAge' = [flightAge EXCEPT ![c] = Stuck]
    /\ cleared' = (Young \ {c} # {})

\* Deviation: the error is overlooked and an empty mempool installed.
FailureInstalled(c) ==
    /\ c \in InFlight
    /\ Ends(c, "reading")
    /\ fetching' = FALSE
    /\ entries' = 0
    /\ queue' = None
    /\ age' = 0
    /\ overlapped' = [overlapped EXCEPT ![c] = FALSE]
    /\ UNCHANGED <<nodeVars, fetchAge, dirty, gen, regressable>>

\* The RPC ends with an error: the cache keeps what it has.
FetchFails(c) ==
    /\ c \in InFlight
    /\ Ends(c, "idle")
    /\ fetching' = FALSE
    /\ overlapped' = [overlapped EXCEPT ![c] = FALSE]
    /\ UNCHANGED <<nodeVars, ageVars, dirty, gen, entries, queue, regressable>>

\* Everything the locked tail of refresh does but m.dirty and m.queue.
Installed(c) ==
    /\ pc[c] = "answered"
    /\ Ends(c, "reading")
    /\ fetching' = FALSE
    /\ entries' = raw[c]
    /\ age' = 0
    /\ overlapped' = [d \in Caller |-> d \in InFlight \ {c}]
    /\ regressable' = overlapped[c]
    /\ UNCHANGED <<nodeVars, fetchAge, gen>>

\* Deviation: the histogram survives the snapshot it was derived from.
InstallKeepsQueue(c) ==
    /\ Installed(c)
    /\ dirty' = (dirty /\ gen # myGen[c])
    /\ UNCHANGED queue

\* The snapshot is clean only if nothing was invalidated during the fetch.
Install(c) ==
    /\ Installed(c)
    /\ queue' = None
    /\ dirty' = (dirty /\ gen # myGen[c])

-----------------------------------------------------------------------------
(* The locked read after refresh returned nil *)

Snapshot(c) ==
    /\ pc[c] = "reading"
    /\ pc' = [pc EXCEPT ![c] = "idle"]
    /\ UNCHANGED <<nodeVars, ageVars, cacheVars, myGen, raw, overlapped,
                   history>>

\* The histogram is derived at most once per snapshot.
SnapshotAndQueue(c) ==
    /\ pc[c] = "reading"
    /\ pc' = [pc EXCEPT ![c] = "idle"]
    /\ queue' = IF queue = None THEN entries ELSE queue
    /\ UNCHANGED <<nodeVars, ageVars, dirty, gen, fetching, entries, myGen,
                   raw, overlapped, history>>

Tick ==
    /\ age' = IF age < MaxAge THEN age + 1 ELSE age
    /\ fetchAge' = IF fetchAge < Stuck THEN fetchAge + 1 ELSE fetchAge
    /\ flightAge' = [c \in Caller |-> IF flightAge[c] < Stuck
                                      THEN flightAge[c] + 1
                                      ELSE flightAge[c]]
    /\ UNCHANGED <<nodeVars, cacheVars, callVars, regressable, cleared>>

-----------------------------------------------------------------------------
Init ==
    /\ node = 0
    /\ heard = 0
    /\ age = MaxAge
    /\ dirty = FALSE
    /\ gen = 0
    /\ fetching = FALSE
    /\ fetchAge = Stuck
    /\ entries = None
    /\ queue = None
    /\ pc = [c \in Caller |-> "idle"]
    /\ myGen = [c \in Caller |-> 0]
    /\ raw = [c \in Caller |-> 0]
    /\ overlapped = [c \in Caller |-> FALSE]
    /\ regressable = FALSE
    /\ flightAge = [c \in Caller |-> Stuck]
    /\ cleared = FALSE

Call(c) == CallServed(c) \/ CallFetches(c)

Read(c) == Snapshot(c) \/ SnapshotAndQueue(c)

Step(c) ==
    \/ Call(c)
    \/ NodeAnswers(c) \/ FetchFails(c) \/ Install(c)
    \/ Read(c)

Next ==
    \/ NodeChanges
    \/ MarkDirty \/ BlockInvalidates \/ MissInvalidates
    \/ Tick
    \/ \E c \in Caller : Step(c)

Spec == Init /\ [][Next]_vars

(***************************************************************************)
(* Fairness.  Time passes; outages of the node end, so that from some time *)
(* on no RPC fails; and the callers that the node does not strand are      *)
(* answered and keep coming back (RunLiveRefresh reads on a ticker).  The  *)
(* RPC of a slow caller may still return late or never.                    *)
(***************************************************************************)
OutagesEnd == <>[][\A c \in Caller : ~FetchFails(c)]_vars

Fairness ==
    /\ OutagesEnd
    /\ WF_vars(Tick)
    /\ \A c \in Caller \ Slow : WF_vars(Step(c))

FairSpec == Spec /\ Fairness

-----------------------------------------------------------------------------
(* Properties *)

TypeOK ==
    /\ node \in Version
    /\ heard \in 0 .. node
    /\ age \in 0 .. MaxAge
    /\ fetchAge \in 0 .. Stuck
    /\ dirty \in BOOLEAN
    /\ gen \in 0 .. MaxGen
    /\ fetching \in BOOLEAN
    /\ entries \in Version \cup {None}
    /\ queue \in Version \cup {None}
    /\ pc \in [Caller -> {"idle", "calling", "answered", "reading"}]
    /\ myGen \in [Caller -> 0 .. MaxGen]
    /\ raw \in [Caller -> Version]
    /\ overlapped \in [Caller -> BOOLEAN]
    /\ regressable \in BOOLEAN
    /\ flightAge \in [Caller -> 0 .. Stuck]
    /\ cleared \in BOOLEAN

\* A refresh that returned without an error left something to read, and the
\* memoised histogram is the one of the entries handed out with it: callers
\* joining the two see one snapshot, whoever installs meanwhile.
ReadsAreConsistent ==
    /\ (\E c \in Caller : pc[c] = "reading") => entries # None
    /\ queue # None => queue = entries

\* m.fetching is set only while some fetch is under way: readers are never
\* served a stale snapshot on account of a fetch that is already over.
FlagMeansFetch == fetching => InFlight # {}

\* A fetch begins.
Begins(c) == pc[c] = "idle" /\ pc'[c] = "calling"

\* A fetch begins alongside a young one only on a cold start, or after the end
\* of yet another fetch cleared the flag that the young one had set: a reader
\* never piles an RPC on one the node is still busy with unless fetches have
\* already overlapped. (The comment on refresh, mempool.go:142, names a cold start
\* and a stuck fetch only: without `cleared` this is violated.)
SingleFlight ==
    [][\A c \in Caller :
        Begins(c) => Young = {} \/ entries = None \/ cleared]_vars

\* A snapshot that counts as clean holds every change that was announced: a
\* block or transaction that lands while a fetch is under way keeps it dirty.
\* (Unless the fetch installed last overlapped another install, see
\* CleanIsCurrent.)
CleanUnlessOverlapped ==
    entries # None /\ ~dirty /\ ~regressable => entries >= heard

\* The snapshot goes back to an older version only when the install was
\* overlapped by another one: while fetches run one at a time, readers never
\* see the mempool go back in time.
ForwardUnlessOverlapped ==
    [][entries # None /\ ~regressable' => entries' >= entries]_vars

\* Once the node's mempool stops changing, the snapshot becomes current and
\* stays so, whatever fetches the node strands and whenever answers come.
SettlesCurrent == <>[](entries # None /\ entries >= heard)

\* The comment on the install (mempool.go:202): "a block or tx that landed
\* mid-fetch keeps it dirty so the next read (past the throttle) refetches".
CleanIsCurrent == entries # None /\ ~dirty => entries >= heard
=============================================================================
