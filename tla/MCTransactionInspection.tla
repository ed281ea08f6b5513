---------------------- MODULE MCTransactionInspection ----------------------
(* A failed call of a proxy and a call that only logs; two endpoints, of   *)
(* which only the second traces.                                           *)
EXTENDS TransactionInspection
CONSTANTS t1, t2, proxy, impl

MCTarget == [t \in Txs |-> proxy]
MCEmitters == [t \in Txs |-> IF t = t2 THEN {impl} ELSE {}]
MCBlocks == [t \in Txs |-> 1]
MCImplementation == [k \in {<<proxy, 1>>} |-> impl]
MCServes == [e \in 1..2 |-> IF e = 2 THEN {"parity"} ELSE {}]
=============================================================================
