---------------------------- MODULE Subscription ----------------------------
(***************************************************************************)
(* What the browser's live socket promises to the views, apart from how it *)
(* keeps the promise: "Reconnects with exponential backoff and replays     *)
(* every active watch subscription on reopen, so a dropped connection      *)
(* never silently loses a watch" (web/src/api/ws.ts).  The views hold      *)
(* watches whenever they like; while there is a connection the server      *)
(* serves exactly those, however connections come and go.                  *)
(***************************************************************************)
CONSTANTS Txid

VARIABLES
    held,        \* the transactions that some view watches
    connected,   \* is there a connection?
    served       \* the transactions the server pushes over it

subVars == <<held, connected, served>>

SubInit == held = {} /\ connected = FALSE /\ served = {}

\* Views take up and give up watches.
Change ==
    \E H \in SUBSET Txid :
        /\ held' = H
        /\ served' = IF connected THEN H ELSE {}
        /\ UNCHANGED connected

Connect ==
    /\ ~ connected
    /\ connected' = TRUE /\ served' = held
    /\ UNCHANGED held

Disconnect ==
    /\ connected
    /\ connected' = FALSE /\ served' = {}
    /\ UNCHANGED held

SubNext == Change \/ Connect \/ Disconnect

SubSpec == SubInit /\ [][SubNext]_subVars
=============================================================================
