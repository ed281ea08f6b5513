--------------------------- MODULE XStocksHistory ---------------------------
(***************************************************************************)
(* What the xStocks audit promises for one deployment, without workers,    *)
(* checkpoints or revisions.  There is a published history and at most one *)
(* traversal of the issuer's two feeds.  A traversal gathers pages feed by *)
(* feed; it can be replaced by a new one at any time; it reaches the       *)
(* published history only as a whole, once both feeds have ended, and the  *)
(* published history never loses or rewrites a record.                     *)
(***************************************************************************)

CONSTANTS
  Feeds,        \* the issuer feeds, "actions" and "multipliers"
  Record        \* issuer records, each with an id and a payload

VARIABLES
  history,      \* [Feeds -> SUBSET Record], the published history
  open,         \* is a traversal under way?
  gathered,     \* [Feeds -> SUBSET Record], what the traversal has gathered
  ended         \* [Feeds -> BOOLEAN], the feeds it has read to their end

vars == <<history, open, gathered, ended>>

\* No two records under one issuer id.
Agree(R, S) == \A r \in R, s \in S : r.id = s.id => r = s

Nothing == [f \in Feeds |-> {}]
NoneEnded == [f \in Feeds |-> FALSE]

Init ==
  /\ history = Nothing
  /\ open = FALSE
  /\ gathered = Nothing
  /\ ended = NoneEnded

\* Start a traversal, dropping the one under way if there is one.
Open ==
  /\ open' = TRUE
  /\ gathered' = Nothing
  /\ ended' = NoneEnded
  /\ UNCHANGED history

\* One page of one unfinished feed, consistent with what was gathered.
Gather ==
  /\ open
  /\ \E f \in Feeds, R \in SUBSET Record, last \in BOOLEAN :
       /\ ~ended[f]
       /\ Agree(R, R \cup gathered[f])
       /\ gathered' = [gathered EXCEPT ![f] = @ \cup R]
       /\ ended' = [ended EXCEPT ![f] = last]
  /\ UNCHANGED <<history, open>>

\* Publish the whole traversal and close it, in one step.
Publish ==
  /\ open
  /\ \A f \in Feeds : ended[f] /\ Agree(gathered[f], history[f])
  /\ history' = [f \in Feeds |-> history[f] \cup gathered[f]]
  /\ open' = FALSE
  /\ gathered' = Nothing
  /\ ended' = NoneEnded

Next == Open \/ Gather \/ Publish

Spec == Init /\ [][Next]_vars
=============================================================================
