------------------------ MODULE ProtocolCollection ------------------------
(***************************************************************************)
(* Collection of DeFi protocol snapshots for one wallet, chain and block:  *)
(* ProtocolPositionService.refresh_supported_positions over the tables     *)
(* protocol_snapshots and protocol_sync_checkpoints.                       *)
(*                                                                         *)
(* A key is one protocol_id.  Aave, every Compound market and Uniswap are  *)
(* Markets: a mandatory discovery fixes a list of items, each item is read *)
(* in turn, and the checkpoint row is rewritten after every item.  ERC-4626*)
(* Vaults read the same way but keep no checkpoint.  Several application   *)
(* processes may share the database; a call may raise, and its process may *)
(* die, between any two steps.  A call to the chain changes nothing but    *)
(* the collector's own variables, so it is one step with the database      *)
(* write that follows it.                                                  *)
(***************************************************************************)
EXTENDS Naturals, Sequences

CONSTANTS
  Collectors,      \* processes refreshing this wallet, chain and block
  Markets,         \* keys collected with a checkpoint
  Vaults,          \* keys collected without
  WithAccount,     \* markets with an account read after the last item (Aave)
  WithSymbols,     \* markets whose discovery has optional reads (Compound)
  Order,           \* the order of refresh_supported_positions
  Providers,       \* nodes that may answer an eth_call
  NoProvider,      \* no provider recorded: "no row"
  Failed,          \* an optional read that got no usable answer
  Switched,        \* an optional read another provider answered
  MaxItems         \* reserves, collateral assets, positions: the service's own cap

Keys == Markets \cup Vaults

ASSUME MarketsAssumption ==
  /\ Markets \cap Vaults = {}
  /\ WithAccount \subseteq Markets /\ WithSymbols \subseteq Markets
ASSUME OrderAssumption ==
  /\ Order \in Seq(Keys) /\ Len(Order) > 0
  /\ \A k \in Keys : \E i \in 1..Len(Order) : Order[i] = k
ASSUME ProvidersAssumption ==
  /\ Failed \notin Providers /\ Switched \notin Providers /\ NoProvider \notin Providers
  /\ Failed # Switched
ASSUME MaxItemsAssumption == MaxItems \in Nat

Issues == {Failed, Switched}
Entry == [item : Nat, outcome : Providers \cup Issues]

(* What the tracker, the item list and the evidence list of one collection *)
(* hold; a checkpoint row is a stored copy.  Item 0 is the discovery.      *)
Collection ==
  [provider : Providers \cup {NoProvider}, items : 0..MaxItems, next : 0..MaxItems,
   evidence : Seq(Entry)]
Nothing == [provider |-> NoProvider, items |-> 0, next |-> 0, evidence |-> << >>]

Snapshot ==
  [provider : Providers \cup {NoProvider}, items : 0..MaxItems, evidence : Seq(Entry),
   matched : BOOLEAN]
NoSnapshot == [provider |-> NoProvider, items |-> 0, evidence |-> << >>, matched |-> FALSE]

VARIABLES
  snapshot,     \* [Keys -> Snapshot], protocol_snapshots
  checkpoint,   \* [Keys -> Collection], protocol_sync_checkpoints
  pc,           \* where each collector's refresh stands
  at,           \* its position in Order
  force,        \* its force_refresh argument
  work          \* [Collectors -> Collection], its local variables

vars == <<snapshot, checkpoint, pc, at, force, work>>

Init ==
  /\ snapshot = [k \in Keys |-> NoSnapshot]
  /\ checkpoint = [k \in Keys |-> Nothing]
  /\ pc = [c \in Collectors |-> "idle"]
  /\ at = [c \in Collectors |-> 1]
  /\ force = [c \in Collectors |-> FALSE]
  /\ work = [c \in Collectors |-> Nothing]

Key(c) == Order[at[c]]
IsStored(row) == row.provider # NoProvider

Goto(c, label) == pc' = [pc EXCEPT ![c] = label]

Advance(c) ==
  /\ work' = [work EXCEPT ![c] = Nothing]
  /\ IF at[c] < Len(Order)
       THEN Goto(c, "look") /\ at' = [at EXCEPT ![c] = @ + 1]
       ELSE Goto(c, "list") /\ UNCHANGED at
  /\ UNCHANGED force

Leave(c) ==
  /\ Goto(c, "idle")
  /\ at' = [at EXCEPT ![c] = 1]
  /\ force' = [force EXCEPT ![c] = FALSE]
  /\ work' = [work EXCEPT ![c] = Nothing]

-----------------------------------------------------------------------------
(* SnapshotReadTracker and the evidence list.                              *)

\* tracker.read inside the try of an optional read; Failed is a read that raised.
Outcome(w, answer) == IF answer \in {w.provider, Failed} THEN answer ELSE Switched

With(w, item, outcome) == Append(w.evidence, [item |-> item, outcome |-> outcome])

\* Mutant: the row names the item just read as the next one.
SavedAtItem(w) == [w EXCEPT !.next = IF @ > 0 THEN @ - 1 ELSE 0]

\* The row _save_checkpoint writes.
Saved(w) == w

\* Mutant: resume with the item after the next one.
ResumedAfter(row) == [row EXCEPT !.next = IF @ < row.items THEN @ + 1 ELSE @]

\* The tracker and lists a resumed collection starts from.
Resumed(row) == row

\* Mutant: only discovery is checkpointed.
SaveDiscoveryOnly(c, w) ==
  checkpoint' = IF Key(c) \in Markets /\ w.next = 0
                  THEN [checkpoint EXCEPT ![Key(c)] = Saved(w)] ELSE checkpoint

SaveCheckpoint(c, w) ==
  checkpoint' = IF Key(c) \in Markets
                  THEN [checkpoint EXCEPT ![Key(c)] = Saved(w)] ELSE checkpoint

-----------------------------------------------------------------------------
Begin(c, forced) ==
  /\ pc[c] = "idle"
  /\ Goto(c, "look")
  /\ force' = [force EXCEPT ![c] = forced]
  /\ UNCHANGED <<snapshot, checkpoint, at, work>>

\* get_snapshot found a finished result: no provider is called.
Reuse(c) ==
  /\ pc[c] = "look"
  /\ ~force[c]
  /\ IsStored(snapshot[Key(c)])
  /\ Advance(c)
  /\ UNCHANGED <<snapshot, checkpoint>>

\* Mutant: what is stored is not looked at.
MissAnyway(c) ==
  /\ pc[c] = "look"
  /\ Goto(c, "open")
  /\ UNCHANGED <<snapshot, checkpoint, at, force, work>>

Miss(c) ==
  /\ pc[c] = "look"
  /\ force[c] \/ ~IsStored(snapshot[Key(c)])
  /\ Goto(c, "open")
  /\ UNCHANGED <<snapshot, checkpoint, at, force, work>>

\* Mutant: a forced refresh ignores the checkpoint.
OpenUnlessForced(c) ==
  /\ pc[c] = "open"
  /\ IF Key(c) \in Markets /\ IsStored(checkpoint[Key(c)]) /\ ~force[c]
       THEN Goto(c, "collect") /\ work' = [work EXCEPT ![c] = Resumed(checkpoint[Key(c)])]
       ELSE Goto(c, "discover") /\ UNCHANGED work
  /\ UNCHANGED <<snapshot, checkpoint, at, force>>

\* get_checkpoint: continue a started collection, forced or not, or discover.
Open(c) ==
  /\ pc[c] = "open"
  /\ IF Key(c) \in Markets /\ IsStored(checkpoint[Key(c)])
       THEN Goto(c, "collect") /\ work' = [work EXCEPT ![c] = Resumed(checkpoint[Key(c)])]
       ELSE Goto(c, "discover") /\ UNCHANGED work
  /\ UNCHANGED <<snapshot, checkpoint, at, force>>

\* The mandatory reads succeeded, all from provider p, and list n items.
Discover(c) ==
  /\ pc[c] = "discover"
  /\ \E p \in Providers, n \in 0..MaxItems :
       \E outcome \in {p} \cup (IF Key(c) \in WithSymbols THEN Issues ELSE {}) :
         LET w == [provider |-> p, items |-> n, next |-> 0,
                   evidence |-> <<[item |-> 0, outcome |-> outcome]>>]
         IN  /\ work' = [work EXCEPT ![c] = w]
             /\ SaveCheckpoint(c, w)
  /\ Goto(c, "collect")
  /\ UNCHANGED <<snapshot, at, force>>

\* A vault re-raises SnapshotContextError; the markets record it as an issue.
MayKeep(k, outcome) == k \in Vaults => outcome # Switched

\* One pass of the item loop: its reads, the evidence, the checkpoint.
Collect(c) ==
  /\ pc[c] = "collect"
  /\ work[c].next < work[c].items
  /\ \E answer \in Providers \cup {Failed} :
       LET outcome == Outcome(work[c], answer)
           w == [work[c] EXCEPT !.next = @ + 1,
                                !.evidence = With(work[c], work[c].next + 1, outcome)]
       IN  /\ MayKeep(Key(c), outcome)
           /\ work' = [work EXCEPT ![c] = w]
           /\ SaveCheckpoint(c, w)
  /\ UNCHANGED <<snapshot, pc, at, force>>

HasIssue(evidence) == \E i \in 1..Len(evidence) : evidence[i].outcome \in Issues

\* registry.analyze: MATCHED only without warnings; every issue makes one, and
\* the values read may make others.
IsMatched(evidence, warned) == ~warned /\ ~HasIssue(evidence)

\* The account read of Aave, analyze, and save_snapshot with the checkpoint's
\* removal in one transaction.
Finish(c) ==
  /\ pc[c] = "collect"
  /\ work[c].next = work[c].items
  /\ \E answer \in Providers \cup {Failed}, warned \in BOOLEAN :
       LET evidence == IF Key(c) \in WithAccount
                         THEN With(work[c], work[c].items + 1, Outcome(work[c], answer))
                         ELSE work[c].evidence
       IN  snapshot' = [snapshot EXCEPT ![Key(c)] =
                          [provider |-> work[c].provider, items |-> work[c].items,
                           evidence |-> evidence,
                           matched |-> IsMatched(evidence, warned)]]
  /\ checkpoint' = [checkpoint EXCEPT ![Key(c)] = Nothing]
  /\ Advance(c)

\* load_portfolio reads what is stored at the block.
List(c) ==
  /\ pc[c] = "list"
  /\ Leave(c)
  /\ UNCHANGED <<snapshot, checkpoint>>

\* Mutant: a failing protocol is skipped and the refresh goes on.
SkipFailed(c) ==
  /\ pc[c] # "idle"
  /\ IF pc[c] = "list" THEN Leave(c) ELSE Advance(c)
  /\ UNCHANGED <<snapshot, checkpoint>>

\* A mandatory read, a vault's provider check, the registry or the database
\* raises, or the process dies.
Abort(c) ==
  /\ pc[c] # "idle"
  /\ Leave(c)
  /\ UNCHANGED <<snapshot, checkpoint>>

Step(c) ==
  \/ Reuse(c) \/ Miss(c) \/ Open(c) \/ Discover(c) \/ Collect(c) \/ Finish(c) \/ List(c)

Next ==
  \E c \in Collectors :
    \/ \E forced \in BOOLEAN : Begin(c, forced)
    \/ Step(c)
    \/ Abort(c)

Spec == Init /\ [][Next]_vars

(* The user starts the refresh again after every failure, and a step that  *)
(* keeps getting its chance is not interrupted every single time.  Nothing *)
(* is assumed of Abort: it may strike infinitely often, between any steps. *)
Fairness ==
  \A c \in Collectors :
    /\ WF_vars(\E forced \in BOOLEAN : Begin(c, forced))
    /\ SF_vars(Reuse(c)) /\ SF_vars(Miss(c)) /\ SF_vars(Open(c))
    /\ SF_vars(Discover(c)) /\ SF_vars(Collect(c)) /\ SF_vars(Finish(c))

LiveSpec == Spec /\ Fairness

-----------------------------------------------------------------------------
TypeOK ==
  /\ snapshot \in [Keys -> Snapshot]
  /\ checkpoint \in [Keys -> Collection]
  /\ pc \in [Collectors -> {"idle", "look", "open", "discover", "collect", "list"}]
  /\ at \in [Collectors -> 1..Len(Order)]
  /\ force \in [Collectors -> BOOLEAN]
  /\ work \in [Collectors -> Collection]

\* evidence holds item 0 and then exactly the items 1..n, each once and in order.
Covers(evidence, n) ==
  /\ Len(evidence) = n + 1
  /\ \A i \in 1..Len(evidence) : evidence[i].item = i - 1

OnlyFrom(evidence, provider) ==
  \A i \in 1..Len(evidence) : evidence[i].outcome \in {provider} \cup Issues

\* The evidence of a checkpoint is that of the items before next_reserve_index,
\* and of no other: a resumed run neither skips nor repeats an item.
CheckpointIsPrefix ==
  \A k \in Keys : IsStored(checkpoint[k]) =>
    Covers(checkpoint[k].evidence, checkpoint[k].next)

LastItem(k, n) == IF k \in WithAccount THEN n + 1 ELSE n

\* A finished snapshot has evidence, or a recorded issue, for every item of the
\* list its discovery returned, however often its collection was interrupted;
\* and it is MATCHED only when none of those reads failed.
SnapshotIsWhole ==
  \A k \in Keys : IsStored(snapshot[k]) =>
    /\ Covers(snapshot[k].evidence, LastItem(k, snapshot[k].items))
    /\ snapshot[k].matched => ~HasIssue(snapshot[k].evidence)

\* Every successful read of a snapshot or checkpoint came from the provider its
\* row names, also when different processes collected its parts.
OneProvider ==
  \A k \in Keys :
    /\ OnlyFrom(snapshot[k].evidence, snapshot[k].provider)
    /\ OnlyFrom(checkpoint[k].evidence, checkpoint[k].provider)

\* A vault result never hides a provider change among its optional failures.
VaultsNeverHideASwitch ==
  \A k \in Vaults : \A i \in 1..Len(snapshot[k].evidence) :
    snapshot[k].evidence[i].outcome # Switched

\* A refresh that returns has a stored snapshot of every protocol, and none of
\* those vanishes before the portfolio lists them.
RefreshIsWhole ==
  \A c \in Collectors : pc[c] = "list" => \A k \in Keys : IsStored(snapshot[k])

\* A started collection never falls back behind its checkpoint; with one
\* process this is what makes interrupted work survive.
NeverStartsOver ==
  [][\A k \in Keys : IsStored(checkpoint[k]) /\ IsStored(checkpoint'[k])
       => checkpoint'[k].next >= checkpoint[k].next]_vars

\* A collection that was interrupted, resumed and written by several processes
\* stores what one uninterrupted collection of one process could have stored.
AtOnce == INSTANCE ProtocolSnapshots
ImplementsAtOnce == AtOnce!Spec

\* A lone process collects a stored result again only in a forced refresh, also
\* when the refresh before it was interrupted anywhere.
OnlyForcedReplaces ==
  [][\A k \in Keys : IsStored(snapshot[k]) /\ snapshot'[k] # snapshot[k]
       => \E c \in Collectors : force[c] /\ Key(c) = k]_vars

\* "The repository stores one immutable result per wallet, chain, protocol, and
\* block" (protocol_position_repository.py:3).
StoredResultIsImmutable ==
  [][\A k \in Keys : IsStored(snapshot[k]) => snapshot'[k] = snapshot[k]]_vars

\* However often the collection is interrupted, every market gets its snapshot.
EveryMarketIsCollected == \A k \in Markets : <>IsStored(snapshot[k])
-----------------------------------------------------------------------------
(* The inductive invariant of ProtocolCollectionProofs.                    *)

\* What holds of a stored checkpoint, and of a collector's copy in the item loop.
Sound(w) ==
  /\ IsStored(w)
  /\ w.next <= w.items
  /\ Covers(w.evidence, w.next)
  /\ OnlyFrom(w.evidence, w.provider)

NoSwitch(evidence) == \A i \in 1..Len(evidence) : evidence[i].outcome # Switched

WholeSnapshot(k, s) ==
  /\ Covers(s.evidence, LastItem(k, s.items))
  /\ s.matched => ~HasIssue(s.evidence)
  /\ OnlyFrom(s.evidence, s.provider)
  /\ k \in Vaults => NoSwitch(s.evidence)

WorkSound ==
  \A c \in Collectors : pc[c] = "collect" =>
    Sound(work[c]) /\ (Key(c) \in Vaults => NoSwitch(work[c].evidence))

RowsSound ==
  \A k \in Keys :
    /\ IF IsStored(checkpoint[k]) THEN Sound(checkpoint[k]) ELSE checkpoint[k] = Nothing
    /\ IF IsStored(snapshot[k]) THEN WholeSnapshot(k, snapshot[k]) ELSE snapshot[k] = NoSnapshot

\* The keys a refresh has passed are stored.
PassedStored ==
  \A c \in Collectors : \A i \in 1..Len(Order) :
    i < at[c] \/ pc[c] = "list" => IsStored(snapshot[Order[i]])

IInv == TypeOK /\ WorkSound /\ RowsSound /\ PassedStored
=============================================================================
