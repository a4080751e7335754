------------------------ MODULE MCPurchaseWorkspace ------------------------
(***************************************************************************)
(* PurchaseWorkspace for TLC.                                              *)
(***************************************************************************)
EXTENDS PurchaseWorkspace, TLC

\* Sessions, customers, workers and line contents are interchangeable: no
\* action and none of the safety properties distinguishes one from another.
Symmetry == Permutations(Workers) \cup Permutations(Sessions)
              \cup Permutations(Customers) \cup Permutations(Rows \ {NoRows})
=============================================================================
