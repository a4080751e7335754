----------------------------- MODULE MCMeltLots -----------------------------
EXTENDS MeltLots, TLC

CONSTANTS a1, a2, d1

MCDocOf == (a1 :> d1) @@ (a2 :> d1)

\* Workers, lots and the lines of one document are told apart by nothing but
\* their state.
Alike == Permutations(Workers) \cup Permutations(Lines)
=============================================================================
