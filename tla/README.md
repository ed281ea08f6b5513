# Verification of Oracle41 Open

Oracle41 Open is a desktop wallet explorer for EVM chains: a PySide6 user
interface over services that page through provider APIs and keep what they
collect in one SQLite database, a cache file and a settings file. This directory
holds TLA+ modules of the parts of it that are hard to test, TLC configurations
that model-check them on small instances, and TLAPS proofs of their main
properties for every value of the constants.

Paths below are relative to `src/src/oracle41_open/`.

1. [What the system is made of](#1-what-the-system-is-made-of)
2. [The modules](#2-the-modules)
3. [The runs](#3-the-runs)
4. [Where the code and its documentation disagree](#4-where-the-code-and-its-documentation-disagree)
5. [Fairness](#5-fairness)
6. [The proofs](#6-the-proofs)
7. [What is only model-checked](#7-what-is-only-model-checked)
8. [What is not modelled](#8-what-is-not-modelled)
9. [Plan](#9-plan)

To run a check: `tlc -config ActivityLedger_feed.cfg MCActivityLedger`; to check
proofs: `tlapm ActivityLedgerProofs.tla`.

## 1. What the system is made of

Four facts about the program as a whole shape every module.

* **A repository call is a transaction.** `SQLiteDatabase.connection`
  (`storage/db/sqlite_database.py`) opens a connection, commits when the `with`
  block ends and rolls back when it raises. A repository method that uses one
  connection is therefore one atomic step; two methods called after each other
  are two, with anything in between.
* **Several processes may be running.** Nothing stops a user from starting the
  application twice. The database and the cache file are then shared, the
  in-memory state is not.
* **Network work runs on a worker thread, one task per view at a time.**
  `BackgroundTaskRunner` (`gui/task_runner.py`) delivers results by Qt signals;
  a cancelled task runs on, and only its signals are dropped.
* **Nothing resumes by itself.** A request may be repeated a few times by the HTTP
  layer or answered by the next provider; an operation that fails after that
  raises, the view shows an error, and the user presses Retry, Refresh or Next.
  What makes this safe is what was stored before the failure.

### The components

| component | state it keeps | operations | talks to | what is hard | correct when |
|---|---|---|---|---|---|
| xStocks audit sync (`core/services/xstocks_audit_service.py`, `storage/db/xstocks_sync_repository.py`, `xstocks_audit_repository.py`) | checkpoint row with run id and revision, staged pages, published history | begin, stage page, set state, publish | issuer API, audit browser | several tasks over one row, each with its own copy; pause, crash, failure between any two calls | the resume point is exact, one writer per revision, published history only grows, publication is all or nothing |
| Protocol snapshot collection (`core/services/protocol_position_service.py`, `storage/db/protocol_position_repository.py`) | one snapshot and one checkpoint row per wallet, chain, protocol and block | reuse, resume, discover, collect an item, finish | RPC providers, protocol registry, portfolio | interruption between items, two processes on one block, a provider change in the middle | no item skipped or repeated, one provider per result, MATCHED only without failed reads |
| Activity feed and event ledger (`gui/views/activity_view.py`, `core/services/activity_service.py`, `storage/db/event_ledger_repository.py`) | ledger events, scope links, checkpoint per scope; per view: rows, next cursor, retry request | load, refresh, next, retry, cancel, edit inputs, clear cache | provider pool, cache, task runner | store and reload are two transactions, inputs change under a cursor, page numbers shift | a history called complete is whole, what is shown is stored, paging ends |
| Page cache (`storage/cache_store.py`) | entries in memory and one file | get, set, remove, expire, evict, load | every service that caches | each process rewrites the whole file | an entry is what a load returned for that key |
| Background task runner (`gui/task_runner.py`) | task state, cancelled flag | submit, cancel, deliver | all views | cancelled before or while running | the finished signal always comes, a cancelled result never |
| Provider failover and cursors (`providers/failover.py`, `providers/goldrush.py`) | provider order, cursor owner | fresh request, continuation | adapters | a continuation must go to the cursor's owner | no page from another provider's list |
| Token detail page (`core/services/token_detail_service.py`, `gui/views/token_detail_view.py`) | the same ledger, a scope with a contract | as the activity feed | as the activity feed | as the activity feed | as the activity feed |
| Provider adapters: paged history (`providers/alchemy.py`, `ankr.py`, `moralis.py`) | nothing; the cursor carries the position of each listing | one page | provider API | listings end at different pages, the approval scan walks back by windows, the chain grows, a check box changes the listings | no page twice, windows adjoin, the end is whole |
| Transaction inspection (`core/services/transaction_inspection_service.py` and its repositories) | receipt, proxy resolution, ABIs, trace, decoding, actions, context | inspect, each part stored in its own transaction; import, replace, remove an ABI | RPC failover, decoder, normalizer, drawer | parts of different age; a failing part between stored ones; ABIs edited meanwhile | stored parts agree, a failure is not remembered as a fact |
| JSON-RPC providers and failover (`providers/evm_rpc.py`, `retry.py`) | learned trace dialects | call with failover and bounded retry | endpoints | unavailable against unsupported | an unsupported answer is not a failure, a failure not an unsupported method |
| Wallet actions and bridges (`core/services/action_normalizer.py`, `bridge_intelligence.py`) | none | derive actions from receipt, events, call and trace | inspection | four kinds of evidence of the same movement | every movement once, no bridge claimed finished without its event |
| Portfolio and protocol valuation (`core/services/portfolio_service.py`, `protocol_portfolio_service.py`) | none | load every wallet, add up | wallet overview, snapshots | one wallet or read failing in the middle | nothing counted twice, a complete total lacks nothing it knows of |
| Wallet overview and pricing (`core/services/wallet_service.py`, `pricing_service.py`) | price cache | page balances, price them | provider pool | page limit, repeated page key | a truncated list says so |
| Protocol adapters and registry (`core/protocols/`) | none | choose an adapter, build positions | snapshots, portfolio | every combination of failed reads; wrapping counters | no position invented, fees and range are the pool's |
| Stock Token audit (`core/services/stock_token_audit_service.py`, `storage/db/stock_token_audit_repository.py`, `gui/views/rwa_audit_browser.py`) | corporate actions, multiplier observations, the browser's scope | refresh, load, change the scope | issuer API, cache | refreshes finishing in the other order, loads of a former contract | histories advance, the browser shows its contract |
| SQLite database and migrations (`storage/db/sqlite_database.py`) | schema version | open, migrate | every repository | two processes starting, a crash between migrations | the version says what was applied |
| Backup and restore (`storage/backup_restore.py`, `settings.py`, `secrets.py`) | backup file, database file, settings, keyring | export, restore | database, settings | files replaced one after the other, beside other processes | a restored database is whole and current |
| Provider settings, validation, diagnostics (`gui/views/settings_view.py`, `core/services/provider_*`) | settings file, keyring, recorded validations | save the form, check and store a key, remove it | providers, keyring | three stores, no transaction over them | only an accepted key is shown as validated |
| Snapshots, watchlist, notes, saved views (`storage/db/*_repository.py`, their views) | user rows, lists and selections on screen | save, list, select, delete, prune, compare | overview page | lists older than the tables, a form that changes during a load | only what was selected is removed |
| Label resolution, real-world asset recognition, exports, portfolio page and main window, application start | caches, widgets | lookups, formatting, wiring | - | little | - |

## 2. The modules

| module | models | proofs |
|---|---|---|
| `XStocksHistory` | what the xStocks audit promises: a published history and at most one traversal | - |
| `XStocksSync` | how the service, the two repositories and the tasks do it | `XStocksSyncProofs` |
| `XStocksBrowser` | what the audit browser reads of `XStocksSync`, in two transactions | `XStocksSyncProofs` |
| `ProtocolSnapshots` | what a reader of stored protocol results may rely on: each was made in one go | - |
| `ProtocolCollection` | how several processes collect them, interrupted and resumed | `ProtocolCollectionProofs` |
| `ActivityLedger` | activity view, task runner, service, cache, provider pool and ledger, composed | `ActivityLedgerProofs` |
| `TransferPaging` | the combined cursors of the provider adapters and the approval scan | `TransferPagingProofs` |
| `TransactionInspection` | an inspection with its repositories, endpoints, ABIs and drawer | `TransactionInspectionProofs` |
| `WalletActions` | the derivation of wallet actions and bridge observations from evidence | `TransactionInspectionProofs` |
| `ProtocolPositions` | pure definitions: positions, status and receipt tokens of the adapters | `PortfolioProofs` |
| `Portfolio` | the load of all watched wallets and the complete total; composes `ProtocolPositions` | `PortfolioProofs` |
| `UniswapPool` | a Uniswap V3 position, its pool, and the adapter's arithmetic | `PortfolioProofs` |
| `LocalState` | database file, migrations, settings, keyring, backups, several processes | `LocalDataProofs` |
| `StockTokenAudit` | the Stock Token audit trail, its two kinds of refresh, the browser's scope | `StockTokenAuditProofs` |
| `UserData` | snapshots, and rows kept by a key, with the pages over them | `LocalDataProofs` |
| `MCParts` | `WalletActions` and the modules after it, and `XStocksBrowser`, checked side by side | - |

`XStocksSync`, `ProtocolCollection`, `ActivityLedger`, `TransferPaging` and
`TransactionInspection` have an `MC...` module with the model values,
sizes and symmetry sets of their runs. The parts that `MCParts` extends share no state. It
adds a variable `part`, chosen in the initial state, that says which of them moves while
the others stay as they began, so that their state spaces add up instead of
multiplying: each is explored exactly as it would be alone. `PROJECT.json` maps every definition that models code to its lines. A
definition that starts with a "Mutant:" comment is not part of any
specification: it is a plausible bug that the runs were tried against, one per
property, to make sure the property can be broken.

### XStocksSync

Several background tasks (`Workers`) refresh one deployment. `row` is the row of
`xstocks_sync_checkpoints`, `staged` its records, `published` the published
tables. `held[w]` is the copy of the checkpoint a call carries from one
transaction to the next, and `IsWriter` is `_check_writer`: the run id and the
revision of the copy are still those of the row. `Resume`, `StartRun` and
`RefuseChangedIdentity` are `begin`; `CheckLoop` is the head of the page loop with
its budget, cancellation and end tests; `StagePage`, `RejectStalePage` and
`RejectConflictingPage` are the outcomes of `stage_page`; `Publish` and
`PublishFails` those of `publish` with `_save_history` inside; `Pause` and
`RecordFailure` are `set_state`. `RequestPause`, `DatabaseError` and `Crash` may
strike between any two. Records are ids with payloads, and a page is any set of
them, so the issuer may edit its pages while they are read. `Now` is the wall
clock, which `ClockMayStepBack` allows to be set back.

The abstraction is `XStocksHistory`, a machine with three actions: open (which
drops the traversal under way), gather and publish. `ImplementsHistory` instantiates it with
`history <- published.records, open <- row.run # 0, gathered <- staged,
ended <- row.done` and demands that every step is one of its steps or a stutter.
Workers, revisions, pauses, failures and crashes all disappear in this mapping.

`XStocksBrowser` adds a load to it: `Ask` is "Load Saved History" or the end of a refresh, `Read` the
two transactions of `XStocksAuditService.load`, and `Sync` any step of `XStocksSync` in between.
What was saved when the load was asked for is kept in a history variable, `since`. A run that is
published between the two reads is shown as pending *and* listed, until the next load; the order of
the reads is what keeps it from being neither.

### ProtocolCollection

`Collectors` are application processes refreshing one wallet and chain at one
block. `snapshot` and `checkpoint` are the two tables by protocol key; `work[c]`
is what the tracker, item list and evidence list of the running collection hold,
and a checkpoint row is a stored copy of it. `Reuse`, `Miss` and `Open` are the
three ways a collection begins; `Discover` is the mandatory discovery with the
first checkpoint; `Collect` one pass of the item loop with `_save_checkpoint`;
`Finish` the account read, `registry.analyze` and `save_snapshot`, which deletes
the checkpoint in the same transaction. `Abort` is any raise or process death,
between any two steps. A read is represented by which provider answered it:
`Outcome` is `SnapshotReadTracker.read` inside the `try` of an optional read.
Vaults have no checkpoint and re-raise a provider change.

The abstraction is `ProtocolSnapshots`, which knows neither processes nor checkpoints nor
interruptions: its one action stores a row that a collection made in one go could have
ended with (`InOneGo`). `snapshot` is mapped to itself, and every step but `Finish` disappears.

### ActivityLedger

The largest module, and a composition: view, task, service, cache, pool and
repository run as one machine, one step per database transaction, provider
request or signal. Event `e` of a scope is its `e`-th oldest. A token cursor
names the events up to a position; a page-numbered cursor says how many of the
newest to skip, names no wallet, and shifts when the chain grows. `ReadCheckpoint`
and `ReadPage`, and `PersistPage` and `Reload`, are separate steps because they
are separate transactions. `Deliver`, `DeliverError` and `Suppress` are the
signals on the GUI thread; `Skip` is a task cancelled before a worker took it, or
one stopped by a `ValidationError`, which leaves no retry request. The inputs may
change while a page loads: applying a saved view sets them without asking
(`activity_view.py` 280-316), so `request` keeps the scope the load began with.

`chain` and `page.overtaken` are history variables, read by no action. `chain[s]`
records how many events the provider listed when the first page of `s` was
stored, and whether each page stored since was requested with the cursor the
checkpoint held. It lets `InOrderIsWhole` say exactly what the ledger guarantees.

`TokenDetailService` and its view take the same steps with the contract as part
of the scope and are read as another scope of the module.

### TransferPaging

One page of an adapter is one action: a request that fails in the middle raises,
keeps nothing, and leaves the cursor. `Asked` are the listings the page reads,
`NextKeys` their positions afterwards, `ApprovalRange` the window of the event log
(`_approval_block_range`), `NextCursor` the combined cursor or `None`. The chain
grows and the "include approvals" box may be toggled between pages. Adapter
`"activity"` is Alchemy's activity feed, whose cursor (`providers/alchemy.py`
642-661) does not say that the listings were begun: a direction that ended is
started over until both end in the same page. `PagesOnce` is not claimed for it;
that it ends, with everything, is.

### TransactionInspection

`pc[p]` walks through `inspect` in its order, one step per database transaction or
request; the `Store...` operators are the repositories' methods. A row is what later
steps read of it: the status of a trace or proxy, the ABIs and the revert bytes of a
decoding, the decoding's ABIs and the trace's status of the derived actions. The decoder's
version is the set of ABIs that apply, those of a resolved implementation included
(`RegistriesFor`). `Answers` is what one endpoint may say to a trace request given what
it learned, `TraceOf` the failover over all. `SelectRow`, `EditABI`, `Synchronize` (Activity
saving a transaction) and `Restart` come between any two steps. `edited` is a history
variable. `ShowResult` looks at the selection; `ShowError` does not and overwrites the
drawer of another row, as the code does.

### WalletActions

Evidence is put together piece by piece (`ReadReceipt`, `AddEvent`, `LoadedTrace`,
`AddFrame`), then `Normalize` derives the actions in one step; each rule of the
normalizer is an operator. An action keeps its kind, status, assets with direction,
and cites the evidence it comes from. The list that `normalize` returns is the set of its
actions, each with its `place`: the turn of its rule, and its turn in the rule, which a
swap takes over from the first of its transfers. `PlacesAreDistinct` proves that no two share
a place, so that counting in the set is counting in the list. Children of a failed frame without an error of
their own are shown with the transaction's status, and an ApprovalForAll's approved flag
stands where a spender is expected (`action_normalizer.py:245`, `:461`): no property is
about them.

### ProtocolPositions and Portfolio

A holding is what a wallet has in a protocol, evidence a holding with the set of optional
reads that failed, and `Positions`, `AdapterStatus` and `ProtocolReceiptTokens` are what the
adapters and the valuation make of it. `Portfolio` is the loop of `load_portfolio`:
pages of balances to the last one, the page limit or a repeated key; snapshots stored,
missing or failing; a price for each thing or none. Everything held is worth one unit,
so that a total is known by what it counts. The snapshots kept of a wallet (`KeptOf`: one
for each protocol there is one of) are of whatever was held at their blocks, independent of
the balances the load reads, as `load_portfolio` joins the latest stored ones with live or
cached balances (`portfolio_service.py:255`); refreshing one is `ProtocolCollection`.
`ProtocolPositions` takes for each protocol the adapter that is registered for it.

### UniswapPool

The pool is external: prices stand on a grid, fees accrue per step, a crossed tick turns
its counter over, all modulo `Modulus`. `FeeGrowthInside`, `UncollectedFee`, `LiquidityAmounts`
and `RangeState` are the adapter's. A position is opened at any growth, so
that every difference wraps in some state.

### LocalState

`files` are all database files there have been and `current` the one at the path: a
restore puts a new file there while another process may hold a connection to the
old one. `proc[p]` is one process with its worker's task (`StartUp`, `ReadSchemaVersion`,
`ApplyMigration` for each version, `ExportBackup`, `RestoreBackup`, `RestoreSettings`) and its
window's step in saving the form or a key (`SaveSettings`, `ValidateKey`, `StoreKey`,
`RecordDiagnostic`, `WriteSettings`, `RemoveKey`). The form may be saved while a key is being
checked. Between the load of the settings and their write (`form`, `WriteForm`) anything of another
process may happen; a write may fail, which like a crash may leave the file as it was or cut
off, and ends a restore after the database was replaced. `CrashProcess` may strike anywhere. A restore of a newer schema replaces the
file before its version is refused (`backup_restore.py:129`); the model does the same.

### StockTokenAudit

The Token Detail page and the browser refresh on threads of their own over one cache and
one database. What the issuer publishes is a version number, a payload the version it
was read at. `Observe` reads the time once, before the multiplier is recorded and
the actions are requested, as the service does; the page reads the catalogue again for its
quote (`ReadQuote`, `KeepAgain`). `EditContract` sets the browser's scope, which cancels its tasks,
and a cancelled task runs on. It may do so at any time: the input is disabled during a page load,
but a saved view sets it nevertheless. `PageLoaded` then loads the history of the contract
that is in the input by now.

### UserData

Two state machines. One is the overview page with its load in the background, saving a
snapshot, and the snapshots page, whose pruning is two statements in two transactions.
The other is a table of rows kept by a key under two windows, which is what the watchlist,
the notes and the saved views have in common.

## 3. The runs

| run | instance | distinct states | question |
|---|---|---|---|
| `xstocks_safety` | 2 tasks, 2 assets, 1 record with 2 payloads, 2 pages per feed, budget 2, 2 runs, 4 revisions, 1 fault; symmetry | 1,004,631 | Do several tasks with faults and restarts keep one exact resume point, one writer per revision and a growing history, and implement `XStocksHistory`? |
| `xstocks_liveness` | 2 tasks, 1 asset, 1 page per feed | 269,941 | Does every call return and a resumed sync get published? |
| `protocol_safety` | 2 processes, an Aave market and a vault, 2 providers, 1 item; symmetry | 737,296 | Are rows gap-free, from one provider, and whole, whoever collected their parts, and do they implement `ProtocolSnapshots`? |
| `protocol_resume` | 1 process, a Compound market of up to 3 items, unbounded interruptions | 522,003 | Is a collection that is interrupted for ever finished in the end, and not repeated unless forced? |
| `ledger_feed` | 1 process, a wallet with up to 3 events and an empty one, a token provider with 1 event a page and a page-numbered one with 2, 2 moves | 403,440 | Are complete histories whole, what is shown stored, and does paging end? |
| `ledger_shared` | 2 processes, 1 wallet with up to 2 events, page-numbered provider with 1 event a page, 2 moves; symmetry | 391,440 | Does the same hold when two processes interleave over one database and cache file? |
| `inspection_safety` | 1 process, 2 transactions through one proxy, 2 endpoints of which one traces, 1 ABI, 1 edit, 1 restart | 2,480,588 | Do the stored parts of an inspection agree, and are failures kept apart from facts? |
| `parts_safety` | the eight parts below | 4,306,221 | see below |
| `transfer_adapters` | 4 adapters, up to 3 pages per listing, newest block up to 6, windows of 2 blocks, 1 timestamp per page | 62,932 | Are no pages repeated, do windows adjoin, is the end whole and reached? |

`parts_safety` is the sum of:

| part | instance | distinct states | question |
|---|---|---|---|
| actions | both networks, every receipt and call, up to 2 events or frames | 124,321 | Is each movement in exactly one action, and each bridge observed? |
| portfolio | 2 wallets, one of which may hold any receipts and have a snapshot of any protocol, or of two, 2 pages of balances, up to 2 troubles (a failed read, an observation that is stale or of the future) and 1 missing price per wallet | 689,169 | Is a complete total whole, and nothing counted twice? |
| pool | ticks 0 to 4, range 1 to 3, 2 prices per tick, counters modulo 16 | 62,481 | Are fees, amounts and range those of the pool? |
| local | 2 processes, schema 3, backups of schema 1 and 4, 1 crash, 2 restores, 1 export, 2 edits, 5 of these together | 1,570,178 | Does every file hold what its version says; is a restored one migrated; is a key shown as valid an accepted one? |
| audit | the page and 2 browser tasks, a listed and an unlisted contract, 2 versions after the first, one reissued, 2 times, 2 refreshes, 1 failure | 1,282,477 | Do histories advance, and does the browser show its contract? |
| browser | 2 tasks and a load, 1 asset, 1 record, 1 page per feed, a budget of 1 page, 2 runs, 3 revisions | 215,506 | Does a load of the browser miss anything that was saved when it was asked for? |
| snapshots | 2 windows, 2 wallets, 2 snapshots, 1 load, 2 removals | 264,232 | Is only what was selected removed, and a snapshot of its form's wallet? |
| entries | 2 windows, 2 keys, 3 ids | 97,857 | Is only the selected entry removed? |

The runs that show a disagreement are in section 4. Deadlock is checked in the
runs of `ProtocolCollection`, `ActivityLedger` and `TransferPaging`. In those of `XStocksSync`,
`TransactionInspection` and `MCParts` the bounds (on runs and revisions, edits, restarts,
crashes, refreshes, evidence) do stop the machine.

### What the properties say

* `PagesInSequence`: the pages committed to a run are consecutive from the first.
* `CompletedRunIsPublished`: a checkpoint disappears only in the step that
  publishes all its records, with both feeds ended.
* `OneWriterPerRevision`, `ImplementsHistory`: what may never happen in a step. That the
  writer's copy is the stored row, that published history only grows, and that staged records
  belong to a pending run and agree (`FreshProgress`, `HistoryNeverRewritten`,
  `StagingConsistent`) follow, and are proved.
* `LoadMissesNothing`: what was staged or published when a load was asked for is in its result, or
  its run is shown as pending, or was given up by "Start New Sync" meanwhile. "Both feed traversals
  finished." is then never said over a history without them.
* `RefreshReturns`, `SyncCompletes`: a call returns although a stale writer's
  failure report is suppressed; a pending sync is published unless the issuer
  contradicts published history.
* `CheckpointIsPrefix`, `RefreshIsWhole`: the rows of a collection, after any interruption.
* `ImplementsAtOnce`: no reader can tell from a row that its collection was interrupted, resumed
  or shared: discovery, items and account are there in their order, an optional failure only
  where a read is optional, and the status drawn from them. `SnapshotIsWhole` and `OneProvider` follow, and are proved.
* `OnlyForcedReplaces`: one process does not collect again what is stored, unless forced. With two,
  one that had missed the row may still finish after the other and write it again.
* `NeverStartsOver`, `EveryMarketIsCollected`: stored progress is not given up by
  a single process. With two processes it may be: the other one's upsert can set
  the row back to an earlier item, which costs time and no correctness
  (`CheckpointIsPrefix` holds in `protocol_safety`).
* `InOrderIsWhole`: a complete scope whose pages were stored in order lacks no
  event its first page counted. `ShownCompleteIsWhole` says it for what a view
  shows, whose label and events come from two transactions.
* `ShownIsDurable`: what a view shows is in the ledger and stays there.
* `PagingEnds` (twice): pressing Next comes to an end.
* `PagesOnce`, `WindowsAdjoin`, `EndIsWhole`: the listings and the approval scan.
* `UnsupportedIsTrue`: a trace stored as unsupported, which is never asked for again, says
  so only if no endpoint serves one, whichever failed and whatever each had learned.
* `DecodedWithTheABIsInForce`, `ActionsFollowEvidence`: what an inspection ends with was
  decoded with the ABIs that apply, and its actions are of the stored decoding and trace,
  also after an interruption between them.
* `EvidenceIsKept`: a later failure does not replace evidence. It holds for one process
  and without a forced refresh, which no view asks for.
  Under `TransactionInspection_concurrent.cfg` it does not: of two processes that trace
  a transaction at once, the one that fails may store its failure last. The trace is
  asked for again at the next inspection, so nothing is lost for good.
* `EveryMovementOnce`: movements read off the evidence without the rules, against the
  actions the rules make. `BridgeIsObserved`: at most one claim per stage, none
  finalized by a call alone.
* `ReceiptOrPosition`, `CompleteTotalIsWhole`: after any failed reads, what a snapshot found held is
  counted by its receipt token or by its position and not by both, and nothing else is left out. A
  complete total misses no wallet and no snapshot that is kept, readable or not; each is fresh, and
  what it found held is counted exactly once and in all its assets. Both speak of the snapshot's
  holding, not of the wallet's present one: section 4 says what happens between the two.
* `PositionIsPoolsOwn`: fees accrued in range, kept as a history variable, against the
  adapter's differences of wrapped counters; amounts against the range state.
* `VersionIsWhatWasApplied`, `RestoredIsMigrated`, `ShownValidIsValidated`: files and
  settings under two processes and a crash. The first is checked from a database that has
  a version; section 4 says what happens without one. The second says that the file of a
  restore that reports success is in place and migrated, unless another process has restored
  another file over it since: a later restore may replace the file and still be migrating.
* `HistoryAdvances`, `LastSeenAdvances`, `ShowsItsScope`: the Stock Token audit.
* `OnlySelectedIsRemoved`: by row, not by id only, so that a reused id would show. A
  snapshot that another process saves between the two statements of a pruning is
  removed with the old ones: the property allows that, as pruning removes whatever it did
  not find among the newest. `SnapshotIsOfItsForm`, `ComparisonIgnoresOrder`: snapshots.

### Why the bounds are enough

*XStocksSync and XStocksBrowser.* The races are between two copies of one row, and need two tasks.
Two pages per feed with a budget of two make a run pause for its budget in the
middle of the traversal; the second run id lets a task of a replaced run meet its
successor; one record id with two payloads is the smallest contradiction; four
revisions cover two pages and a pause or failure with a resume after it. `MaxFaults`
is one because each fault leads back to `idle`, where the state differs only by the
row, and the row after two faults is the row after one at a higher revision. For a load one
page per feed is enough: a page is staged before, between or after its reads. With a budget of
one page the run pauses between them; faults are left to the proof.

*ProtocolCollection.* Two processes and two providers are what a conflict takes. One
item suffices for safety because an item is handled alike wherever it stands; the
resume run has three so that a checkpoint may lie before, at and after each.

*ActivityLedger.* `MaxMoves` bounds loads, refreshes, cancellations and restarts
together; Next, Retry and every failure are unbounded. Two are what it takes to
start over, cancel or restart once after a first load. Page size one with two
events, or two with three, gives a first, an inner or a last page and new activity
between them. One interleaving is out of TLC's reach: a page-numbered continuation
fetched before, and stored after, another process's first page needs four events
at one a page. It is covered by the proof, for any number of events: this is the
reason for `overtaken` in `Chained`.

*TransferPaging.* Three pages against one make a listing end two pages before another;
newest blocks 0 to 6 in windows of two give one to four windows, with and without a
remainder, and every case of a window that starts, ends or falls short at block 0.

*TransactionInspection.* Two transactions share a proxy and so its resolution, and one of
them failed and logs nothing while the other logs from the implementation: every source of
ABIs occurs. Of two endpoints the first serves no trace method and may fail before it
has said so. One edit and one restart can each fall on every step; a second
one meets the same stored rows.

*Parts.* A wallet with no snapshot beside one with any is what the loop over the watchlist can
confuse; two protocols in one wallet show that neither stands for the other, and present balances
with and without each receipt every drift between the two. Two pieces of evidence are what a duplicate or a swap takes, and the decoded call, the
native value and the trace's root come on top of them. Two troubles give every
pair of causes for a missing position or an incomplete total. Five ticks give prices below, at, inside and
above both bounds, and a modulus of 16 wraps within a few swaps. Two processes, one of
which crashes, with a schema of three give a migration that another process has done, is
doing or will do; two restores let one process replace the file that another has just
put in place; `MaxEvents` leaves out only runs with all six of a crash, two restores, an export and two
edits. Two refreshes at two times are what it takes to save in another order than
observed.

## 4. Where the code and its documentation disagree

Three of these are runs (`ledger_mixed`, `ledger_cached`, `parts_first_start`) in which TLC
finds the property violated. The others are shown by the configuration named, with the
module that its name begins with (`MCParts` for `Parts_...`).

* **`parts_first_start`, `ForwardOnly`.** `initialize` (`storage/db/sqlite_database.py:644`) reads
  the schema version before any migration's transaction begins, and `_apply_migration`
  writes its target without comparing. Of two processes that start at once on a new
  database, the slower one repeats the first migration, whose statements are all
  `IF NOT EXISTS`, and sets the version back to 1. Neither it nor any later start gets past
  the second, which fails because its tables exist. "Forward-only schema migrations run in
  order and update the schema version only after successful SQL execution" (line 3).
* **`Parts_older_action.cfg`, `OlderNeverReplacesNewer`.** `refresh`
  (`core/services/stock_token_audit_service.py:52`) takes the observation's time before it asks for the
  corporate actions, which may come from the cache: an older answer with a later
  time replaces the newer state, against "Older action observations cannot overwrite newer
  states" (`docs/ROADMAP.md:609`). The multiplier history can show a false change back in
  the same way.
* **`Parts_delegatecall.cfg`, `InternalTransfersAreReal`.** A DELEGATECALL frame repeats its
  caller's value, which is not moved again; `_trace_actions`
  (`core/services/action_normalizer.py:267`) shows an internal transfer to the implementation.
* **`Parts_receipts.cfg`, `ReceiptsHavePositions`.** Aave receipt tokens are taken from the raw
  evidence, and left out of the wallet's tokens also when the reserve's configuration
  could not be read and there is no position, against "only when positive reserve
  evidence proves that the matching economic position is included"
  (`docs/PROTOCOL_ADAPTERS.md:89`). The snapshot is PARTIAL then, so no complete total is given.

* **`XStocksSync_clock_back.cfg`, `CompletedRunIsPublished`.** `_save_history`
  (`storage/db/xstocks_audit_repository.py:145`) returns without writing when the
  saved `fetched_at` is later than the new one, and `publish` then deletes the
  checkpoint. If the wall clock was set back between two publications a finished
  run is dropped without a failure, although `docs/ARCHITECTURE.md` says that
  "staged records, deployment identity, and checkpoint cleanup commit together" and
  that the resume point remains if publication fails.
* **`ProtocolCollection_immutable.cfg`, `StoredResultIsImmutable`.** The repository "stores one
  immutable result per wallet, chain, protocol, and block"
  (`storage/db/protocol_position_repository.py:3`); a forced refresh upserts it, and
  can replace a MATCHED result by a PARTIAL one of the same block
  (`docs/PROTOCOL_ADAPTERS.md:91` documents the replacement).
* **`ledger_mixed`, `CompleteIsWhole`.** Next sends the stored cursor with whatever
  the inputs name now (`gui/views/activity_view.py:385`). A page number says nothing
  of the wallet, and `persist_page` does not compare it with the checkpoint: after
  the inputs are edited, another wallet's history is continued from page 2 and
  recorded as COMPLETE without its newest page. The service promises not to present
  "incomplete history as complete" (`core/services/activity_service.py:4`). The same
  property breaks in other ways the model contains: Retry of an old cursor after a
  cancelled Refresh, a crash between storing a page and caching it, two processes
  paging at once, page numbers reused from the cache after new activity.
  `InOrderIsWhole` is the strongest form that holds.
* **`ledger_cached`, `ShownPartialIsNotComplete`.** `_load_cached_page`
  (`core/services/activity_service.py:351`) builds a result without a completeness,
  whose default is COMPLETE. A page with pages after it is shown as
  "Completeness: complete", beside the text that the view is partial until the next
  page is loaded, and exported as complete.
* **`TransferPaging_approvals.cfg`, `ApprovalsAreWhole`.** `_load_block_timestamps` asks for at
  most 30 blocks and passes over failing requests, and approvals without a timestamp
  are dropped (`providers/alchemy.py:506`, and `ankr.py` alike). A scan that ends
  without an error may lack approvals, against "Never silently truncate, discard, or
  replace live data with demonstration data" (`docs/ROADMAP.md:51`). `MaxStamps` is 1
  instead of 30; a failing request alone is enough.

Further behaviour a reader may not expect, which no document denies: a snapshot up to an hour
old is fresh, and is joined with the balances of now (`portfolio_service.py:255`), so that after a
withdrawal or a supply a total shown as complete counts what was moved twice or not at all, until the
snapshot is refreshed. "Total USD (complete)" is also about protocol risk and is given also for a wallet whose token list was
truncated or has tokens without a price; a repeated page key ends a listing unmarked
(`wallet_service.py:152`). A proxy, trace or context stored as not found or not supported
is kept for good, since the views never force a refresh; a revert replay that failed is
stored as "no revert" and not repeated while the ABIs stay the same. A crash in the middle of
saving the settings leaves a file no later start can read (`settings.py:201`). Refreshing
the notes page puts the stored note over unsaved edits.

## 5. Fairness

The runs of `TransactionInspection` and `MCParts` check safety only, and assume none.

* *XStocksSync.* Weak fairness of each task's next step: worker threads are scheduled
  and every network or database call returns or times out. Weak fairness of `Resume`:
  the user keeps resuming. The number of faults is bounded, so they stop. Both are
  needed for `SyncCompletes`; nothing in the code resumes by itself.
* *ProtocolCollection.* Weak fairness of `Begin` (the user starts the refresh again)
  and strong fairness of each step: one that keeps getting its chance is not
  interrupted every time. `Abort` is unrestricted, and may strike infinitely often.
* *ActivityLedger.* Weak fairness of Next, Retry and the task, strong fairness of
  the start, request, store and reload steps: none of them fails for ever. New
  activity and expiry are not required to stop, except by `MaxEvents`.
* *TransferPaging.* Strong fairness of `LoadPage`: the user keeps pressing Next, while the
  chain grows and the box is toggled. `PagingEnds` excepts the case in which the
  box stays where Moralis refuses the cursor of the other mode.

## 6. The proofs

All theorems are checked by TLAPS with no assumption but the named ones on the
constants, which TLC evaluates in the runs. Every proof follows the same pattern:
an inductive invariant, one lemma or step per action, and a temporal step at the end.

Some theorems state a property that no run checks any longer because the proof covers it
(`ProgressIsFresh`, `HistoryIsKept`, `StagingIsConsistent`, `VaultContext`, `FinishedIsWhole`,
`SingleProvenance`, and five `TypeCorrect`).

The named assumptions say what the code takes for granted of its constants. Of those that a
reader may wonder about: `UserDataAssumption` has at least one account; `NoDecodingAssumption`
and `NobodyAssumption` say that the mark of a missing row, receipt or name is none of those that exist; `PortfolioAssumption` says that a watchlist is a
finite list and that snapshots are of supported protocols. A theorem about part of
the instances names the condition as its hypothesis: `FirstVersion > 0` (a database that has a
version when the first process opens it), `Processes = {p}` or `Collectors = {c}` (nobody else
has the application open) and `Forces \subseteq {FALSE}` (no forced refresh). Section 4 and the
runs show that each of them is needed.

**XStocksSyncProofs.** `IInv` adds three facts to the checked invariants: `HeldIsPast`
(a copy of the pending run is the row or has a lower revision), `RunsAreFresh` (no
run id above `runs` exists, so a replaced run cannot come back), and `FetchHasFeed` (a
task that fetches has a feed left). Without the first, a copy could be *newer* than
the row and match it later; without the second, a task of a discarded run could match
a new one. From it: `TypeCorrect`, `ProgressIsFresh`, `ResumePointIsExact`,
`StagingIsConsistent`, `HistoryIsKept`, `OneWriter`. `PublicationIsComplete` and
`Refinement` assume `ClockMayStepBack = FALSE`, which section 4 shows to be needed; the
refinement maps initial states to initial states and every action to an action of
`XStocksHistory` or a stutter. `LoadIsWhole`, on the same assumption, follows the records that were
saved when a load was asked for (`NothingMissedYet`): until the first read they are published, or
staged under the same run, or given up; `PendingStep` says that a step of the tasks takes them from
one of these to another and never out of all three.

**ProtocolCollectionProofs.** `IInv` is `TypeOK` with `WorkSound` (a running collection's
evidence covers exactly its items before `next`, all from its provider), `RowsSound`
(the same of both tables) and `PassedStored` (a refresh that stands at position `i` left a
stored snapshot of every protocol before it). The point is that a checkpoint is a copy
of sound work and resumed work a copy of a sound checkpoint, so it does not matter
which process wrote last. From it: `TypeCorrect`, `CheckpointIsExact`, `FinishedIsWhole`,
`SingleProvenance`, `VaultContext`, `RefreshStoresAll`. With one process `OwnCheckpoint` holds as well
(the stored row is the copy in hand, and there is none during a discovery), and with it
`ProgressIsKept`: a collection never falls back. `Refinement` adds `MandatoryRead` (a discovery that
is recorded as failed has optional reads, in the collection under way as in a checkpoint), so that
what `Finish` stores is the row of a collection in one go, for any number of processes.
`StoredIsReused` is for one process, with `CollectsMissing`: unless forced, it collects what is not stored.

**ActivityLedgerProofs.** `Typed` adds to `TypeOK` what each task step may rely on
(`TasksOK`). `Durable` says that every cache entry, in memory and in the file, and every
result about to be delivered consists of stored events; as the ledger only grows,
`ShownStaysStored` follows. `ChainInv` is the heart: while pages are stored in order,
there is a length `h` of the history at which the checkpoint's cursor stands exactly at
the end of what is stored (`ChainOK`); a page held by a task joins that end unless it was
overtaken (`PagesOK`); a complete scope has no cursor (`CompleteOK`). `CompleteInOrder`
follows, and with `ResultsOK` `ShownComplete`.

**TransferPagingProofs.** `PageInv`: a listing's position is one more than the pages received,
and a listing without one was begun. `ScanInv`: with approvals on throughout, the
cursor's `approvalTo` is the block before the last window. `NothingLost`: every page was
received or is to come. They give `TypeCorrect`, `NoPageTwice`, `NoBlockSkipped` and
`EndsWithAll`, for any window size, any number of pages and however the chain grows.

**TransactionInspectionProofs.** `TypeCorrect` needs `Underway`: an inspection that is under way is of a
transaction, and from the decoding on its trace is known. Three invariants follow, each about one
kind of memory. `LearnedIsTrue`: an endpoint that is left out serves no trace method. That a
trace found unsupported is unsupported by *all* endpoints takes the least endpoint of the
failover that answered, hence a use of well-foundedness. `RegistriesHeld`: unless an ABI was
edited meanwhile, an inspection holds the ABIs that apply now, and its decoding was made with
what it holds. `TablesHold`, for one process: the rows of trace, decoding and actions are those
in the hands of the inspection. They give `UnsupportedTheorem`, `DecodedTheorem` and
`ActionsTheorem`, the first two for any number of processes. `EvidenceTheorem` is an action property,
from `FetchesWhatIsMissing`: a lone inspection that nobody forces requests only what is not
stored or was stored as a failure.

For `WalletActions` no induction over the lists is needed, since an action is known by the evidence it
cites. `Once(A, M)` says that each movement of `M` is in exactly one transfer or swap of `A` and that these
hold no other. There is one lemma for each rule (`NativeOnce`, `EventsOnce`, `CallOnce`, `TraceOnce`: the
root of a trace is told as the transaction's own value and never again), `OnceUnion` puts the rules
together, whose movements are disjoint, and `SwapKeepsOnce` shows that a swap takes the place of exactly the
two transfers it is made of. The invariant `ActionsInv` adds what the evidence is (`EvidenceOK`). From it:
`EveryMovementOnceTheorem`, `BridgeIsObservedTheorem` and `PlacesAreDistinct`, for any number of events
and internal calls.

**LocalDataProofs.** For `LocalState` the invariant is `LocalInv`. `FilesMigrated`: a file's version says which
migrations it holds. `ProcessesPlaced`: a process that is about to migrate never finds its file
behind what it is about to apply; a process that restores migrates its own file or one that has replaced
it; a restore that reported success is migrated while its file is the current one. `KeysChecked`:
the keyring holds accepted keys only. What other processes do to a file meanwhile is summed up once,
in `Grown` (a file only gains migrations, and no version exceeds the schema), so
that a step of one process needs no case per step of another. From it: `VersionTheorem`,
`RestoredTheorem`, `ShownValidTheorem`, and `ForwardOnlyTheorem`, which shows that two first starts
at once are the only way in which a version goes back. For `UserData` the invariant is `SnapshotsInv`,
whose heart is `IdsNameRows`: an id stands for one row for ever, in the table and in whatever a window
has listed. From it: `ComparisonTheorem`, `OnlySelectedTheorem`, and with `InputsAreLoaded`
`SnapshotIsOfItsFormTheorem`.

**StockTokenAuditProofs.** `HistoryAdvancesTheorem` and `LastSeenAdvancesTheorem` follow from what one
transaction compares, for any order in which refreshes save. `ShowsItsScopeTheorem` needs
`TasksOfScope`: a task of the browser whose result may still be shown is of the contract it shows.

**PortfolioProofs.** For `UniswapPool` the proof is arithmetic modulo `Modulus`: equality of residues is
congruence (`WrapIsResidue`, `OneResidue`), a counter turned twice is itself (`TurnedTwice`), a crossed tick
leaves the fees inside as they are (`TickMoves`), and fees grow inside by what is earned in range
(`GrowsInRange`). `PoolInv` says that the adapter's fees are those accrued and the tick is the price's;
`PositionTheorem` follows for every width of the counters, every range and every fee. For `Portfolio`,
lemmas about the adapters say which receipt tokens are left out for which evidence
(`StandsForReceipt`, `LeftOutStands`, `MatchedIsWhole`); `MergedSound` that what is counted of one wallet
satisfies both properties, whatever tokens it holds beside the snapshots (`NeverTwice`, `LeftOutIsHeld`,
`MergedWhole`); and `PortfolioInv` that every wallet already passed is counted so, that the
snapshots of the wallet under way are of one protocol each, and that a total is given at the end of the
list. They give `ReceiptTheorem` and `CompleteTotalTheorem`, for any watchlist.

## 7. What is only model-checked

Liveness (`RefreshReturns`, `SyncCompletes`, `EveryMarketIsCollected`, both `PagingEnds`) stays
with TLC: the prover has no support for fairness and ENABLED. The
pure definitions of `ProtocolPositions` are proved about as far as `Portfolio` uses them.
None of the modules declares a recursive operator.

## 8. What is not modelled

* *Data.* Amounts, names, hashes, prices, labels and filters; ABI and JSON parsing, and
  decoding itself; risk ratios; formatting and export layout. No property above tells them apart.
* *Pure I/O and wiring.* HTTP, the live check of providers, application start, exports, the
  main window, and the portfolio page, which starts one background task at a time with the
  runner that `ActivityLedger` models.
* *Lookups without state of their own.* Label resolution, real-world asset recognition.
* *Left out of modelled parts.* Running without a ledger; cooldowns and health records of
  the pool; telemetry and category clearing of the cache; metadata, holders and charts
  of Token Detail; the overview's cache and the age of a cached quote; tags, list limits
  and the filters of a saved view; the cache and ABI panels of the settings; learned
  historical-state support of an endpoint; the reference lending adapter, a test double.
  `XStocksAuditRepository.save` (publishing without a checkpoint),
  `ProtocolPositionRepository.delete_checkpoint` and `EventLedgerRepository.upsert_fee`
  have no caller in the program.
* An entry with a time to live of 0 never expires; expiry is optional in the model, so
  this is one of its behaviours, and no property speaks of age.

`PROJECT.json` lists every source file under a component with its status, and the
hazards that no property covers yet, with the reason.

## 9. Plan

Every safety property that a passing run checks is proved. What remains for later is reach rather than
depth: the cooldowns of the provider pool, and the holders and charts of Token Detail.
