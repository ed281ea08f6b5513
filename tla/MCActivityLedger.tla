------------------------- MODULE MCActivityLedger -------------------------
(* ActivityLedger with an opaque-token and a page-numbered provider.       *)
EXTENDS ActivityLedger, TLC

CONSTANTS token, numbered, a

Symmetry == Permutations(Views)

\* The token provider returns one event a page, the numbered one two.
Sizes == [p \in Providers |-> IF p = numbered THEN 2 ELSE 1]
SingleEvents == [p \in Providers |-> 1]
\* Wallet a has a history of several pages, any other none.
Histories == [s \in Scopes |-> IF s = a THEN 3 ELSE 0]
LongHistories == [s \in Scopes |-> 3]
ShortHistories == [s \in Scopes |-> 2]
=============================================================================
