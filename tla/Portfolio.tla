----------------------------- MODULE Portfolio -----------------------------
(***************************************************************************)
(* Loading the portfolio: for every watched wallet the token balances are  *)
(* read page by page and priced, the protocol snapshots kept of it are     *)
(* read, receipt tokens of counted positions are left out, and the totals  *)
(* are added up.  Every request may fail; a wallet that fails is passed    *)
(* over.  The snapshots are of earlier blocks than the balances, so the    *)
(* two need not agree.  Everything is worth one unit, so that a total is   *)
(* known by what it counts: `counted` says what is in it.                  *)
(***************************************************************************)
EXTENDS ProtocolPositions, Integers, Sequences

CONSTANTS
  Wallets,       \* the watchlist, in order: a sequence of names
  Unverified,    \* tokens that the filter hides
  Held,          \* [wallet -> the sets of tokens it may hold]
  Used,          \* [wallet -> the sets of protocols it may have snapshots of]
  MaxTokenBalancePages,  \* max_token_balance_pages
  StaleAfterSeconds,     \* an observation older than this is stale
  Ages,          \* ages of an observation, in seconds; negative in the future
  MaxTroubles,   \* bound: failed reads and observations not fresh, of one wallet
  MaxUnpriced    \* bound: assets of one wallet without a price

NativeAsset == "native"
Names == {Wallets[i] : i \in DOMAIN Wallets}

ASSUME PortfolioAssumption ==
  /\ Wallets \in Seq(Names)
  /\ \A name \in Names : /\ Used[name] \subseteq SUBSET ProtocolNames
                          /\ \A b \in Held[name] : "none" \notin b
  /\ MaxTokenBalancePages \in Nat \ {0} /\ StaleAfterSeconds \in Nat /\ Ages \subseteq Int
  /\ MaxTroubles \in Nat /\ MaxUnpriced \in Nat

VARIABLES
  stage,      \* where the load stands
  index,      \* the wallet it has come to
  options,    \* hide unverified tokens, exact block
  balances,   \* the tokens the wallet holds now
  listing,    \* tokens listed so far, pages read, how the listing ended
  stored,     \* the snapshots kept of the wallet, and whether reading them failed
  wallets,    \* history: per wallet what was loaded and counted
  total       \* the result, once loaded

portfolioVars == <<stage, index, options, balances, listing, stored, wallets, total>>

NoListing == [tokens |-> {}, pages |-> 0, ended |-> "no"]
NoSnapshot == [kept |-> <<>>, failed |-> FALSE]
NoTotal == [complete |-> FALSE, loaded |-> 0]

PortfolioInit ==
  /\ stage = "choose" /\ index = 1
  /\ options = [hide |-> FALSE, exact |-> FALSE]
  /\ balances = {} /\ listing = NoListing /\ stored = NoSnapshot
  /\ wallets = <<>> /\ total = NoTotal

Name == Wallets[index]

-----------------------------------------------------------------------------

\* With an exact block the snapshots may be refreshed first, which is the whole
\* of ProtocolCollection; here that and reading them succeed or fail together.
Start ==
  /\ stage = "choose"
  /\ \E o \in [hide : BOOLEAN, exact : BOOLEAN] : options' = o
  /\ stage' = "wallet"
  /\ UNCHANGED <<index, balances, listing, stored, wallets, total>>

OpenWallet ==
  /\ stage = "wallet" /\ index <= Len(Wallets)
  /\ \E b \in Held[Name] : balances' = b
  /\ stage' = "balances"
  /\ UNCHANGED <<index, options, listing, stored, wallets, total>>

\* One page of balances.  The listing ends with its last page, with a page key
\* that repeats, or at the page limit, which is recorded.
ReadBalances ==
  /\ stage = "balances"
  /\ \E page \in SUBSET (balances \ listing.tokens) :
       LET tokens == listing.tokens \cup page
           pages == listing.pages + 1
           record(ended) == listing' = [tokens |-> tokens, pages |-> pages, ended |-> ended]
       IN  \/ tokens = balances /\ record("last page") /\ stage' = "snapshots"
           \/ pages > 1 /\ record("repeated key") /\ stage' = "snapshots"
           \/ pages >= MaxTokenBalancePages /\ tokens # balances
                /\ record("page limit") /\ stage' = "snapshots"
           \/ pages < MaxTokenBalancePages /\ tokens # balances
                /\ record("no") /\ stage' = "balances"
  /\ UNCHANGED <<index, options, balances, stored, wallets, total>>

Failure == [loaded |-> FALSE, truncated |-> FALSE, error |-> TRUE, kept |-> <<>>, results |-> {},
            excluded |-> {},
            counted |-> [tokens |-> {}, positions |-> {}, unpriced |-> {}, known |-> FALSE]]

NextWallet ==
  /\ stage' = "wallet" /\ index' = index + 1
  /\ balances' = {} /\ listing' = NoListing /\ stored' = NoSnapshot
  /\ UNCHANGED <<options, total>>

\* Any error of the overview is the wallet's, and the loop goes on.
WalletFails ==
  /\ stage = "balances"
  /\ wallets' = Append(wallets, Failure)
  /\ NextWallet

Freshness(age) ==
  IF age < 0 THEN "future" ELSE IF age > StaleAfterSeconds THEN "stale" ELSE "fresh"

\* The snapshots there may be of a protocol: of whatever was held at its block.
SnapshotsOf(p) ==
  {[result |-> Analyze(e), age |-> age] :
     e \in UNION {EvidenceOf(p, h) : h \in Holdings(p)}, age \in Ages}

Troubles(kept) ==
  Cardinality(UNION {{p} \X kept[p].result.evidence.failed : p \in DOMAIN kept})
    + Cardinality({p \in DOMAIN kept : Freshness(kept[p].age) # "fresh"})

\* What the store may have of a wallet, by protocol: the snapshot of the newest
\* block or, if a block was chosen, the one at that block.
KeptOf ==
  [protocols \in UNION {Used[name] : name \in Names} |->
     {kept \in [protocols -> UNION {SnapshotsOf(p) : p \in protocols}] :
        /\ \A p \in protocols : kept[p].result.protocol = p
        /\ Troubles(kept) <= MaxTroubles}]

ReadSnapshots ==
  /\ stage = "snapshots"
  /\ \E protocols \in Used[Name] : \E kept \in KeptOf[protocols] :
       stored' = [kept |-> kept, failed |-> FALSE]
  /\ stage' = "merge"
  /\ UNCHANGED <<index, options, balances, listing, wallets, total>>

\* Refreshing or reading them fails: none is used, whatever is kept.
SnapshotsFail ==
  /\ stage = "snapshots"
  /\ \E protocols \in Used[Name] : \E kept \in KeptOf[protocols] :
       stored' = [kept |-> kept, failed |-> TRUE]
  /\ stage' = "merge"
  /\ UNCHANGED <<index, options, balances, listing, wallets, total>>

Results == IF stored.failed THEN {} ELSE {stored.kept[p].result : p \in DOMAIN stored.kept}

Shown == {t \in listing.tokens : options.hide => t \notin Unverified}

\* What is counted of the wallet: native, its listed and priced tokens but the
\* receipts, and the priced assets of its positions.
CountedTokens(priced, excluded) == ({NativeAsset} \cup (Shown \ excluded)) \cap priced

Valued(r, priced) ==
  IF Sized(r.evidence)
    THEN UNION {{<<r.protocol, q.item, a>> : a \in q.assets \cap priced} : q \in r.positions}
    ELSE {}
ValuedPositions(priced) == UNION {Valued(r, priced) : r \in Results}

Unpriced(priced) ==
  UNION {{q \in r.positions :
            q.assets = {} \/ \E a \in q.assets : <<r.protocol, q.item, a>> \notin Valued(r, priced)} :
         r \in Results}

\* The tokens left out because a position stands for them.
Excluded == UNION {ProtocolReceiptTokens(r) : r \in Results}

\* What PricingService is asked for.  It gives a live quote, else the last one
\* kept unless that is too old, else none: anything may be without a price.
Priceable ==
  {NativeAsset} \cup listing.tokens
    \cup UNION {UNION {q.assets : q \in r.positions} : r \in Results}

PriceAnswers ==
  {Priceable \ unpriced : unpriced \in {u \in SUBSET Priceable : Cardinality(u) <= MaxUnpriced}}

\* The wallet's part of the result.
Merged(priced) ==
  [loaded |-> TRUE, truncated |-> listing.ended = "page limit",
   error |-> stored.failed \/ (options.exact /\ Results = {}),
   kept |-> stored.kept, results |-> Results, excluded |-> Excluded,
   counted |-> [tokens |-> CountedTokens(priced, Excluded),
                positions |-> ValuedPositions(priced),
                unpriced |-> Unpriced(priced),
                \* The overview has a total as soon as anything has a price.
                known |-> priced \cap ({NativeAsset} \cup Shown) # {}]]

MergeWallet ==
  /\ stage = "merge"
  /\ \E priced \in PriceAnswers : wallets' = Append(wallets, Merged(priced))
  /\ NextWallet

-----------------------------------------------------------------------------
(* The totals.                                                             *)

Loaded == {i \in DOMAIN wallets : wallets[i].loaded}

\* Mutant: partial snapshots count as complete.
IncompleteByAge(w) ==
  w.results # {} /\ \/ \E p \in DOMAIN w.kept : Freshness(w.kept[p].age) # "fresh"
                    \/ w.counted.unpriced # {}

ProtocolIncomplete(w) ==
  w.results # {} /\ \/ \E r \in w.results : r.status # "MATCHED"
                    \/ \E p \in DOMAIN w.kept : Freshness(w.kept[p].age) # "fresh"
                    \/ w.counted.unpriced # {}

\* Mutant: snapshots that could not be read are as if there were none.
CompleteDespiteErrors ==
  /\ Loaded # {} /\ Loaded = DOMAIN wallets
  /\ ~options.exact
  /\ \A i \in Loaded : wallets[i].counted.known /\ ~ProtocolIncomplete(wallets[i])

CompleteTotal ==
  /\ Loaded # {} /\ Loaded = DOMAIN wallets
  /\ ~options.exact
  /\ \A i \in Loaded : /\ wallets[i].counted.known /\ ~wallets[i].error
                       /\ ~ProtocolIncomplete(wallets[i])

AddUp ==
  /\ stage = "wallet" /\ index > Len(Wallets)
  /\ total' = [complete |-> CompleteTotal, loaded |-> Cardinality(Loaded)]
  /\ stage' = "done"
  /\ UNCHANGED <<index, options, balances, listing, stored, wallets>>

PortfolioNext ==
  \/ Start \/ OpenWallet \/ ReadBalances \/ WalletFails
  \/ ReadSnapshots \/ SnapshotsFail \/ MergeWallet \/ AddUp

PortfolioSpec == PortfolioInit /\ [][PortfolioNext]_portfolioVars

-----------------------------------------------------------------------------
(* Correctness.                                                            *)

\* How often what a snapshot found held is counted: by a token and by a position.
Counts(w, p, item) ==
  Cardinality({t \in w.counted.tokens : t = ReceiptToken(p, item)})
    + Cardinality({i \in {v[2] : v \in {x \in w.counted.positions : x[1] = p}} : i = item})

(* "This prevents receipt-token double counting" (PROTOCOL_ADAPTERS.md:89) *)
(* and "a failed conversion leaves an empty position; its receipt token    *)
(* must remain in wallet totals" (protocol_portfolio_service.py:484):      *)
(* whichever reads failed, whatever has a price and however old the        *)
(* snapshots are, also in a total known only in part, nothing that a       *)
(* snapshot found held is counted both by its receipt token and by its     *)
(* position - unless the receipt's address could not be read; no receipt   *)
(* of Compound or of a vault is left out for a position that is not there; *)
(* and nothing is left out but receipts of what a snapshot found held.     *)
ReceiptOrPosition ==
  \A i \in Loaded :
    LET w == wallets[i]
    IN  /\ \A r \in w.results : \A item \in r.evidence.holding :
             /\ "reserve token addresses" \notin r.evidence.failed
                  => Counts(w, r.protocol, item) <= 1
             /\ r.protocol # "aave-v3" /\ ReceiptToken(r.protocol, item) \in w.excluded
                  => \E q \in r.positions : q.item = item /\ q.assets # {}
        /\ \A t \in w.excluded :
             \E r \in w.results : t \in ReceiptsHeld(r.protocol, r.evidence.holding)

(* "Partial snapshots, missing prices, and storage failures make the       *)
(* complete total unavailable instead of silently understating risk"       *)
(* (ROADMAP.md:487): a total shown as complete misses no wallet of the     *)
(* watchlist and no snapshot kept of one, whether or not it could be read; *)
(* each of them is fresh, and what it found held is counted exactly once   *)
(* and in all its assets.  Of what the wallet holds by now it says nothing *)
(* more than that: the snapshot may be StaleAfterSeconds older.            *)
CompleteTotalIsWhole ==
  stage = "done" /\ total.complete =>
    /\ total.loaded = Len(Wallets)
    /\ \A i \in Loaded : \A p \in DOMAIN wallets[i].kept :
         LET w == wallets[i]
             r == w.kept[p].result
         IN  /\ w.kept[p].age \in 0..StaleAfterSeconds
             /\ \A item \in r.evidence.holding : Counts(w, p, item) = 1
             /\ \A q \in r.positions : \A a \in q.assets :
                  <<p, q.item, a>> \in w.counted.positions

(* The second half of PROTOCOL_ADAPTERS.md:89, for Aave: a receipt token   *)
(* is left out only if its position is included.  It does not hold.        *)
ReceiptsHavePositions ==
  \A i \in Loaded : \A r \in wallets[i].results : \A item \in r.evidence.holding :
    ReceiptToken(r.protocol, item) \in wallets[i].excluded
      => item \in {q.item : q \in r.positions}
=============================================================================
