---------------------------- MODULE WatchServer ----------------------------
(***************************************************************************)
(* What the hub promises of connections and watches, apart from the        *)
(* goroutines, channels and maps that keep the promise                     *)
(* (docs/ARCHITECTURE.md, "each client has its watched-txid set"): which   *)
(* connections it serves and which transactions each of them is told of.   *)
(* A connection joins once, is turned away only when the house is full,    *)
(* and is served exactly what it asked for until it leaves for good.       *)
(***************************************************************************)
EXTENDS Naturals, FiniteSets

CONSTANTS Conn, Txid, MaxClients, MaxWatched

VARIABLES
    up,      \* is the hub running?
    joined,  \* the connections it serves
    gone,    \* the connections it has closed
    served   \* the transactions every connection is told of

serverVars == <<up, joined, gone, served>>

ServerInit ==
    /\ up = TRUE
    /\ joined = {} /\ gone = {}
    /\ served = [c \in Conn |-> {}]

Full == MaxClients > 0 /\ Cardinality(joined) = MaxClients

Join(c) ==
    /\ up /\ c \notin joined \cup gone /\ ~ Full
    /\ joined' = joined \cup {c}
    /\ UNCHANGED <<up, gone, served>>

TurnAway(c) ==
    /\ up /\ c \notin joined \cup gone /\ Full
    /\ gone' = gone \cup {c}
    /\ UNCHANGED <<up, joined, served>>

TakeUp(c, t) ==
    /\ c \in joined
    /\ t \in served[c] \/ Cardinality(served[c]) < MaxWatched
    /\ served' = [served EXCEPT ![c] = @ \cup {t}]
    /\ UNCHANGED <<up, joined, gone>>

GiveUp(c, t) ==
    /\ c \in joined
    /\ served' = [served EXCEPT ![c] = @ \ {t}]
    /\ UNCHANGED <<up, joined, gone>>

\* All at once, and nothing stays behind
Depart(c) ==
    /\ c \in joined
    /\ joined' = joined \ {c} /\ gone' = gone \cup {c}
    /\ served' = [served EXCEPT ![c] = {}]
    /\ UNCHANGED up

Close ==
    /\ up' = FALSE
    /\ joined' = {} /\ gone' = gone \cup joined
    /\ served' = [c \in Conn |-> {}]

ServerNext ==
    \/ \E c \in Conn : Join(c) \/ TurnAway(c) \/ Depart(c)
    \/ \E c \in Conn, t \in Txid : TakeUp(c, t) \/ GiveUp(c, t)
    \/ Close

ServerSpec == ServerInit /\ [][ServerNext]_serverVars
=============================================================================
