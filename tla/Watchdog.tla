------------------------------ MODULE Watchdog ------------------------------
(***************************************************************************)
(* The sync-peer stall watchdog (deploy/btcd-sync-watchdog.sh): a script   *)
(* that a timer runs every ten minutes.  It keeps its memory in a state    *)
(* file, asks btcd for its height and its peers, and when the node is      *)
(* stalled disconnects one peer, logs that, and saves what it did.         *)
(*                                                                         *)
(* Between those steps the node moves on, RPCs fail, the script may be     *)
(* killed, and a write to the state directory may fail, which the script   *)
(* does not notice: it runs without `set -e'.  Times are ages in timer     *)
(* periods, capped where the script stops telling them apart.              *)
(***************************************************************************)
EXTENDS Naturals, Sequences, FiniteSets

CONSTANTS
    Stall,        \* STALL_MIN
    Interval,     \* INTERVAL_MIN
    MaxInterv,    \* MAX_INTERVENTIONS
    MaxHeight,    \* bound on the heights of the node
    MaxLosses     \* bound on the lost writes, lost answers and kills

ASSUME WatchdogAssumption ==
    /\ Stall \in Nat /\ Interval \in Nat
    /\ MaxInterv \in Nat \ {0}
    /\ MaxHeight \in Nat \ {0} /\ MaxLosses \in Nat

VARIABLES
    height,      \* what getblockcount answers
    syncnode,    \* does some peer have "syncnode": true?
    outbound,    \* is there an outbound peer?
    pc,          \* where the running script is, or "idle"
    dry,         \* --dry-run
    mem,         \* the script's s_ variables
    state,       \* the state file
    log,         \* interventions.log: heights and outcomes
    quiet,       \* history: time since the last disconnect, at most Interval
    spent,       \* history: disconnects since a tick last saw the height move
    losses       \* number of writes and answers lost and scripts killed

nodeVars   == <<height, syncnode, outbound>>
scriptVars == <<pc, dry, mem>>
fileVars   == <<state, log>>
history    == <<quiet, spent, losses>>
vars == <<nodeVars, scriptVars, fileVars, history>>

Capped(age, cap) == IF age < cap THEN age + 1 ELSE age

\* height = 0: no height seen yet.  pending = 0: no outcome to settle;
\* otherwise the stamp in it identifies that line of the log.
Memory == [height  : 0 .. MaxHeight,
           since   : 0 .. Stall,
           last    : 0 .. Interval,
           count   : 0 .. MaxInterv + 1,
           pending : Nat]

NoMemory == [height |-> 0, since |-> 0, last |-> Interval, count |-> 0,
             pending |-> 0]

-----------------------------------------------------------------------------
(* The node and the clock *)

NodeMoves ==
    \/ /\ height < MaxHeight
       /\ height' = height + 1
       /\ UNCHANGED <<syncnode, outbound, scriptVars, fileVars, history>>
    \/ /\ syncnode' \in BOOLEAN /\ outbound' \in BOOLEAN
       /\ UNCHANGED <<height, scriptVars, fileVars, history>>

\* The script is over long before the next timer period.
TimePasses ==
    /\ pc = "idle"
    /\ state' = [state EXCEPT !.since = Capped(@, Stall),
                              !.last = Capped(@, Interval)]
    /\ quiet' = Capped(quiet, Interval)
    /\ UNCHANGED <<nodeVars, scriptVars, log, spent, losses>>

-----------------------------------------------------------------------------
(* One tick of the script *)

\* A write or an answer gets lost, or the script is killed.
Loses == losses < MaxLosses /\ losses' = losses + 1

Exit == pc' = "idle" /\ dry' = FALSE /\ mem' = NoMemory

\* The timer, or somebody by hand, starts it; it loads the state file.
Start ==
    /\ pc = "idle"
    /\ dry' \in BOOLEAN
    /\ mem' = state
    /\ pc' = "height"
    /\ UNCHANGED <<nodeVars, fileVars, history>>

HeightFails ==
    /\ pc = "height"
    /\ Exit
    /\ UNCHANGED <<nodeVars, fileVars, history>>

\* Deviation: the two outcomes are mixed up.
OutcomeReversed == IF height = mem.height THEN "recovered" ELSE "no-effect"

Outcome == IF height = mem.height THEN "no-effect" ELSE "recovered"

\* The line of the pending intervention gets its outcome; patching the file
\* may fail.
Settle ==
    IF mem.pending = 0 THEN UNCHANGED <<log, losses>>
    ELSE \/ /\ log' = [log EXCEPT ![mem.pending].outcome =
                           IF @ = "pending" THEN Outcome ELSE @]
            /\ UNCHANGED losses
         \/ Loses /\ UNCHANGED log

Progress ==
    [mem EXCEPT !.height = height, !.since = 0, !.count = 0, !.pending = 0]

StillThere == [mem EXCEPT !.pending = 0]

\* getblockcount answers: settle, then leave if the node made progress or has
\* not been stuck for long enough.
HeightKnown ==
    /\ pc = "height"
    /\ Settle
    /\ IF height # mem.height
       THEN mem' = Progress /\ pc' = "save" /\ spent' = 0
       ELSE /\ mem' = StillThere
            /\ pc' = IF mem.since < Stall THEN "save" ELSE "peers"
            /\ UNCHANGED spent
    /\ UNCHANGED <<nodeVars, dry, state, quiet>>

\* Deviation: the budget allows one more.
WithinBudgetPlusOne == mem.count <= MaxInterv

WithinBudget == mem.count < MaxInterv

\* Deviation: the first intervention of a stall need not wait.
RestedOrFresh == mem.last >= Interval \/ mem.count = 0

Rested == mem.last >= Interval

\* btcd has a sync peer and is left to its own, or the last intervention was
\* too recent, or there is no outbound peer that btcd would replace.
NothingToDo == syncnode \/ (WithinBudget /\ (~Rested \/ ~outbound))

\* Leaving without an intervention; what was settled is saved.
Leave ==
    /\ pc' = "save"
    /\ UNCHANGED <<nodeVars, dry, mem, fileVars, history>>

LeavesAlone == pc = "peers" /\ NothingToDo /\ Leave

\* getpeerinfo fails (where there is nothing to do that makes no difference).
PeersFail == pc = "peers" /\ ~NothingToDo /\ Leave

\* Deviation: what was said is not saved.
GivesUpUnsaved ==
    /\ pc = "peers" /\ ~syncnode
    /\ ~WithinBudget
    /\ Exit
    /\ UNCHANGED <<nodeVars, fileVars, history>>

\* The budget of this stall is spent: say so once.
GivesUp ==
    /\ pc = "peers" /\ ~syncnode
    /\ ~WithinBudget
    /\ IF mem.count = MaxInterv
       THEN mem' = [mem EXCEPT !.count = @ + 1] /\ pc' = "save" /\ UNCHANGED dry
       ELSE Exit
    /\ UNCHANGED <<nodeVars, fileVars, history>>

\* A dry run goes on as if it had disconnected the peer.
Intervenes ==
    /\ pc = "peers" /\ ~syncnode /\ outbound
    /\ WithinBudget /\ Rested
    /\ pc' = IF dry THEN "log" ELSE "disconnect"
    /\ UNCHANGED <<nodeVars, dry, mem, fileVars, history>>

DisconnectFails == pc = "disconnect" /\ Leave

\* btcd disconnects the peer; if its answer is lost the script leaves as it
\* does on a failure.
Disconnect ==
    /\ pc = "disconnect"
    /\ \/ pc' = "log" /\ UNCHANGED losses
       \/ pc' = "save" /\ Loses
    /\ quiet' = 0
    /\ spent' = spent + 1
    /\ UNCHANGED <<nodeVars, dry, mem, fileVars>>

Remembers(line) ==
    mem' = [mem EXCEPT !.last = 0, !.count = @ + 1, !.pending = line]

\* Deviation: the line is not remembered as pending.
LogUnremembered ==
    /\ pc = "log"
    /\ log' = Append(log, [height |-> mem.height, outcome |-> "pending"])
    /\ Remembers(0)
    /\ pc' = "save"
    /\ UNCHANGED <<nodeVars, dry, state, history>>

\* The intervention is logged and remembered.  If the line does not reach the
\* file, the stamp remembered is in no line, which is as good as none.
Log ==
    /\ pc = "log"
    /\ \/ /\ log' = Append(log, [height |-> mem.height, outcome |-> "pending"])
          /\ Remembers(Len(log'))
          /\ UNCHANGED losses
       \/ Loses /\ Remembers(0) /\ UNCHANGED log
    /\ pc' = "save"
    /\ UNCHANGED <<nodeVars, dry, state, quiet, spent>>

\* save: a temporary file is written and renamed.
Save ==
    /\ pc = "save"
    /\ state' = mem
    /\ Exit
    /\ UNCHANGED <<nodeVars, log, history>>

\* The script is killed, or its save fails, which ends it just the same.
Killed ==
    /\ pc # "idle"
    /\ Loses
    /\ Exit
    /\ UNCHANGED <<nodeVars, fileVars, quiet, spent>>

-----------------------------------------------------------------------------
Init ==
    /\ height \in 1 .. MaxHeight
    /\ syncnode \in BOOLEAN /\ outbound \in BOOLEAN
    /\ pc = "idle"
    /\ dry = FALSE
    /\ mem = NoMemory
    /\ state = NoMemory
    /\ log = <<>>
    /\ quiet = Interval
    /\ spent = 0
    /\ losses = 0

Runs ==
    \/ HeightKnown \/ LeavesAlone \/ GivesUp \/ Intervenes
    \/ Disconnect \/ Log \/ Save

RpcFails == HeightFails \/ PeersFail \/ DisconnectFails

Next == NodeMoves \/ TimePasses \/ Start \/ Runs \/ RpcFails \/ Killed

Spec == Init /\ [][Next]_vars

(***************************************************************************)
(* Fairness.  The timer fires and the script runs to its end; time passes  *)
(* however often somebody starts the script by hand; outages of the node's *)
(* RPC end.  Kills and lost writes are bounded by MaxLosses.               *)
(***************************************************************************)
Fairness ==
    /\ WF_vars(Start) /\ WF_vars(Runs)
    /\ SF_vars(TimePasses)
    /\ <>[][~RpcFails]_vars

FairSpec == Spec /\ Fairness

-----------------------------------------------------------------------------
(* Properties *)

\* "After MAX_INTERVENTIONS with no progress it stops": between two ticks that
\* see the height move, no more peers than that are disconnected, apart from
\* one for every write or answer that was lost and every script killed.
BudgetKept == spent <= MaxInterv + losses

\* "At most one intervention per INTERVAL_MIN minutes", across stalls and
\* whatever RPCs fail, as long as nothing was lost.
RateLimited ==
    [][spent' > spent /\ losses = 0 => quiet >= Interval]_vars

\* "The next tick patches the line's outcome": only the last intervention can
\* be without an outcome, and then the state file remembers it.
LogSettled ==
    pc = "idle" /\ losses = 0 =>
        \A i \in DOMAIN log : log[i].outcome = "pending" <=> i = state.pending

\* A line is patched "recovered" if the height moved since the intervention,
\* else "no-effect", whatever was lost and however many ticks failed between.
OutcomesTruthful ==
    [][\A i \in DOMAIN log :
        log'[i] # log[i] =>
            log'[i].outcome =
                (IF height = log[i].height THEN "no-effect" ELSE "recovered")]_vars

\* A node that stays stalled is acted upon until the script gives up on it,
\* through outages of the RPC, lost writes and kills.
GivesUpInTheEnd ==
    <>[](~syncnode /\ outbound) => <>[](state.count > MaxInterv)
=============================================================================
