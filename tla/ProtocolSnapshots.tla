------------------------- MODULE ProtocolSnapshots -------------------------
(***************************************************************************)
(* What a reader of protocol_snapshots may rely on, without processes,     *)
(* checkpoints or interruptions.  A row is what one collection, made in one*)
(* go by one process, could have stored: one provider answered, every item *)
(* that it discovered was read once and in order, and the status is drawn  *)
(* from those reads.  Rows come one at a time, and none vanishes.          *)
(***************************************************************************)
EXTENDS Naturals

CONSTANTS
  Markets, Vaults, WithAccount, WithSymbols,    \* the protocols, and what they read
  Providers, NoProvider,    \* who may answer, and nobody
  Failed, Switched,         \* what may go wrong with an optional read
  MaxItems

VARIABLE snapshot    \* one row for each protocol

Keys == Markets \cup Vaults

None == [provider |-> NoProvider, items |-> 0, evidence |-> << >>, matched |-> FALSE]

\* The discovery, n items, and the account where there is one.
Reads(k, n) == 1..(IF k \in WithAccount THEN n + 2 ELSE n + 1)

\* What may go wrong with read i: little in a discovery, and a vault does not
\* hide that another provider answered.
Issues(k, i) ==
  IF i = 1 THEN IF k \in WithSymbols THEN {Failed, Switched} ELSE {}
  ELSE IF k \in Vaults THEN {Failed} ELSE {Failed, Switched}

\* One collection of k in one go can end with this row.
InOneGo(k, row) ==
  /\ row.provider \in Providers /\ row.items \in 0..MaxItems
  /\ DOMAIN row.evidence = Reads(k, row.items)
  /\ \A i \in Reads(k, row.items) :
       /\ row.evidence[i].item = i - 1
       /\ row.evidence[i].outcome \in {row.provider} \cup Issues(k, i)
       /\ row.matched => row.evidence[i].outcome = row.provider

Store(k) ==
  /\ InOneGo(k, snapshot'[k])
  /\ snapshot' = [snapshot EXCEPT ![k] = snapshot'[k]]

Init == snapshot = [k \in Keys |-> None]

Next == \E k \in Keys : Store(k)

Spec == Init /\ [][Next]_snapshot
=============================================================================
