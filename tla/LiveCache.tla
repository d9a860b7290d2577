----------------------------- MODULE LiveCache -----------------------------
(***************************************************************************)
(* The live cache (internal/explorer/live.go) on top of the mempool        *)
(* snapshot: what every push and every dashboard request is served from,   *)
(* recomputed in the background by at most one goroutine at a time, or two *)
(* when the node has left the first one waiting.                           *)
(*                                                                         *)
(* Each cached feed is identified with the version of the mempool it was   *)
(* computed from.  Mempool.tla supplies the snapshot; its callers are here *)
(* the refreshLive goroutines.  How the feeds reach a page is modelled in  *)
(* Hub.tla and Dashboard.tla.                                              *)
(***************************************************************************)
EXTENDS Mempool

CONSTANTS
    Followed,     \* sets of fields of liveData; a behaviour follows one set,
                  \* as no field decides what is computed, or when
    LiveEvery,    \* liveRefreshEvery; also the age of the zero time
    LiveStuck     \* liveRefreshStuck

ASSUME LiveCacheAssumption ==
    /\ Followed \subseteq SUBSET {"stats", "fees", "mempool"}
    /\ LiveEvery \in Nat /\ LiveStuck \in Nat

VARIABLES
    live,          \* s.live: the version of each cached feed, or None
    liveInFlight,  \* s.liveInFlight
    attemptAge,    \* time since s.liveAttemptAt, at most LiveEvery
    kickAge,       \* time since s.liveKickedAt, at most LiveStuck
    phase,         \* what every refreshLive goroutine computes
    got            \* what it has computed so far

Feed == DOMAIN live

liveVars == <<live, liveInFlight, attemptAge, kickAge, phase, got>>
feedVars == <<vars, liveVars>>

-----------------------------------------------------------------------------
(* The live cache: liveSnapshot and refreshLive *)

IdleRefreshers == {r \in Caller : phase[r] = "idle"}

\* Deviation: a wedged recompute blocks the next one for good.
LiveDueUnlessInFlight == attemptAge >= LiveEvery /\ ~liveInFlight

LiveDue ==
    attemptAge >= LiveEvery /\ (~liveInFlight \/ kickAge >= LiveStuck)

\* Reading the cache starts a recompute when one is due.  The number of
\* callers bounds how many goroutines can run at the same time.
LiveSnapshot ==
    IF LiveDue /\ IdleRefreshers # {}
    THEN /\ \E r \in IdleRefreshers : phase' = [phase EXCEPT ![r] = "stats"]
         /\ liveInFlight' = TRUE
         /\ kickAge' = 0
         /\ UNCHANGED <<live, attemptAge, got>>
    ELSE UNCHANGED liveVars

\* RunLiveRefresh's ticker, and WarmLive after a (re)connect.
RunLiveRefresh ==
    /\ LiveSnapshot
    /\ UNCHANGED vars

Enters(r, p, g) ==
    /\ phase' = [phase EXCEPT ![r] = p]
    /\ got' = [got EXCEPT ![r] = g]
    /\ UNCHANGED <<live, liveInFlight, attemptAge, kickAge>>

\* computeStats begins with the block count, whose RPC may fail.
BlockCountFails(r) ==
    /\ phase[r] = "stats"
    /\ pc[r] = "idle"
    /\ Enters(r, "fees", got[r])
    /\ UNCHANGED vars

\* computeStats, computeFees and computeMempoolUpdate go through refresh.
RefresherWaits(r) ==
    /\ phase[r] \in {"stats", "queue", "fees", "update"}
    /\ Call(r) \/ NodeAnswers(r) \/ Install(r)
    /\ UNCHANGED liveVars

\* What r has computed, with feed f from the entries it has just read.
Computed(r, f) == [g \in Feed |-> IF g = f THEN entries ELSE got[r][g]]

\* Each of them reads the snapshot, computeStats twice: for the count of
\* transactions and for the queue.
RefresherReads(r) ==
    \/ /\ phase[r] = "stats"
       /\ Snapshot(r)
       /\ Enters(r, "queue", got[r])
    \/ /\ phase[r] = "queue"
       /\ SnapshotAndQueue(r)
       /\ Enters(r, "fees", Computed(r, "stats"))
    \/ /\ phase[r] = "fees"
       /\ Snapshot(r)
       /\ Enters(r, "update", Computed(r, "fees"))
    \/ /\ phase[r] = "update"
       /\ SnapshotAndQueue(r)
       /\ Enters(r, "install", Computed(r, "mempool"))

\* A feed that cannot be computed does not keep the next one from it.
RefresherFails(r) ==
    /\ FetchFails(r)
    /\ \/ phase[r] \in {"stats", "queue"} /\ Enters(r, "fees", got[r])
       \/ phase[r] = "fees" /\ Enters(r, "update", got[r])
       \/ phase[r] = "update" /\ Enters(r, "install", got[r])

NothingIn(F) == [f \in F |-> None]

Installs(r, feeds) ==
    /\ phase[r] = "install"
    /\ phase' = [phase EXCEPT ![r] = "idle"]
    /\ got' = [got EXCEPT ![r] = NothingIn(Feed)]
    /\ live' = feeds
    /\ liveInFlight' = FALSE
    /\ attemptAge' = 0
    /\ UNCHANGED <<kickAge, vars>>

\* Deviation: a feed that failed is cleared.
LiveInstallClears(r) == Installs(r, got[r])

\* A feed that failed keeps its previous value.
LiveInstall(r) ==
    Installs(r, [f \in Feed |-> IF got[r][f] = None THEN live[f]
                                                    ELSE got[r][f]])

-----------------------------------------------------------------------------
\* The wall clock ages the snapshot and the cache alike.
FeedTick ==
    /\ Tick
    /\ attemptAge' = IF attemptAge < LiveEvery THEN attemptAge + 1
                                               ELSE attemptAge
    /\ kickAge' = IF kickAge < LiveStuck THEN kickAge + 1 ELSE kickAge
    /\ UNCHANGED <<live, liveInFlight, phase, got>>

NodeMoves == NodeChanges /\ UNCHANGED liveVars

\* OnTxAccepted and OnBlock as far as the snapshot is concerned
Announced == (MarkDirty \/ BlockInvalidates) /\ UNCHANGED liveVars

FeedInit ==
    /\ Init
    /\ live \in {NothingIn(F) : F \in Followed}
    /\ liveInFlight = FALSE
    /\ attemptAge = LiveEvery
    /\ kickAge = LiveStuck
    /\ phase = [r \in Caller |-> "idle"]
    /\ got = [r \in Caller |-> live]

\* The RPCs of a slow caller hang rather than fail.
Fails(r) == r \notin Slow /\ (BlockCountFails(r) \/ RefresherFails(r))

Refresh(r) == RefresherWaits(r) \/ RefresherReads(r) \/ LiveInstall(r)

FeedNext ==
    \/ NodeMoves \/ Announced
    \/ FeedTick \/ RunLiveRefresh
    \/ \E r \in Caller : Refresh(r) \/ Fails(r)

FeedSpec == FeedInit /\ [][FeedNext]_feedVars

(***************************************************************************)
(* Fairness.  RunLiveRefresh's ticker fires, outages of the node end, and  *)
(* every recompute goes on unless the node leaves its RPC unanswered.      *)
(***************************************************************************)
FeedOutagesEnd == <>[][\A r \in Caller : ~Fails(r)]_feedVars

FeedFairness ==
    /\ FeedOutagesEnd
    /\ WF_feedVars(FeedTick) /\ WF_feedVars(RunLiveRefresh)
    /\ \A r \in Caller \ Slow : WF_feedVars(Refresh(r))

FairFeedSpec == FeedSpec /\ FeedFairness

-----------------------------------------------------------------------------
(* Properties *)

MaybeVersion == Version \cup {None}

FeedTypeOK ==
    /\ TypeOK
    /\ \E F \in Followed : live \in [F -> MaybeVersion]
    /\ liveInFlight \in BOOLEAN
    /\ attemptAge \in 0 .. LiveEvery
    /\ kickAge \in 0 .. LiveStuck
    /\ phase \in [Caller -> {"idle", "stats", "queue", "fees", "update",
                             "install"}]
    /\ got \in [Caller -> [Feed -> MaybeVersion]]

\* The live cache never loses a feed it once had: an outage of the node makes
\* the dashboard stale, not empty.
FeedsStay == [][\A f \in Feed : live[f] # None => live'[f] # None]_feedVars

Current(v) == v # None /\ v >= heard

\* Once the node's mempool stops changing, the cached feeds become current
\* and stay so, although nobody asks for them.
LiveSettles == <>[](\A f \in Feed : Current(live[f]))
=============================================================================
