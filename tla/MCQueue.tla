------------------------------- MODULE MCQueue -------------------------------
(* Queue for TLC: three bands instead of five, and symmetry of transactions. *)
EXTENDS Queue, TLC

Bands == <<10, 4, 1>>

\* Total is the fold of the community modules.
ASSUME TotalIsSum ==
    \A f \in [1 .. 3 -> 0 .. 3] :
        Total(f, 1 .. 3) = MapThenSumSet(LAMBDA x : f[x], 1 .. 3)

Symmetry == Permutations(Tx)
=============================================================================
