--------------------------- MODULE MCXStocksSync ---------------------------
(* Model values and symmetry for the runs of XStocksSync.                  *)
EXTENDS XStocksSync, TLC

\* Workers, assets, and the payloads and ids of records are compared for equality only.
Symmetry ==
  Permutations(Workers) \cup Permutations(Assets)
    \cup Permutations(RecordIds) \cup Permutations(Payloads)
=============================================================================
