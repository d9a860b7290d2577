------------------------------- MODULE MCHub -------------------------------
EXTENDS Hub, TLC

Symmetry == Permutations(Conn) \cup Permutations(Txid)

\* No step of the hub or the pumps looks at what a message carries, so states
\* that differ only in that are explored once.
PushShapes ==
    LET shape(p) == [to |-> p.to, fetched |-> p.fetched]
    IN  [s \in {shape(p) : p \in DOMAIN pushes} |->
            BagCardinality([p \in {q \in DOMAIN pushes : shape(q) = s} |->
                                pushes[p]])]

\* What is queued for a connection that is being dropped, and what a dropped
\* one had watched, is never looked at again.
View ==
    <<running, clients, watchers, mempoolDirty,
      [c \in Conn |-> IF c \in clients THEN watched[c] ELSE {}],
      chanVars,
      [c \in Conn |-> IF done[c] THEN 0 ELSE send[c]],
      done, open, pumpVars, notifier, PushShapes, owed>>
=============================================================================
