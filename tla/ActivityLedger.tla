-------------------------- MODULE ActivityLedger --------------------------
(***************************************************************************)
(* The activity feed: ActivityView and its background task, ActivityService*)
(* with its page cache, the provider pool, and EventLedgerRepository.      *)
(*                                                                         *)
(* A scope is one wallet, chain and block floor.  The provider lists its   *)
(* events newest first in pages; event e of a scope is the e-th oldest, so *)
(* new activity takes the next number.  Every page is stored in the ledger *)
(* with the cursor of the page after it; a scope whose last page was       *)
(* reached is recorded as complete.                                        *)
(*                                                                         *)
(* A view is one application process: they share the database and the cache*)
(* file.  A load runs on a worker thread and is one step per database      *)
(* transaction or provider request; the user acts between any two steps.   *)
(* Filters, prices and labels are not represented: a failing price request *)
(* is a failing step, a failing label request is swallowed.                *)
(***************************************************************************)
EXTENDS Integers, FiniteSets

CONSTANTS
  Views,          \* application processes
  Scopes,         \* wallet, chain, block floor
  Providers,      \* entries of the provider pool
  PageNumbered,   \* providers whose cursor is a page number (GoldRush)
  PageSize,       \* [Providers -> page size]
  None,           \* Python's None
  MaxEvents,      \* bound: [Scopes -> events the scope ever has]
  MaxMoves        \* bound: loads, refreshes, cancellations, restarts of all views

ASSUME ProvidersAssumption == PageNumbered \subseteq Providers
ASSUME PageSizeAssumption == PageSize \in [Providers -> Nat \ {0}]
ASSUME MaxEventsAssumption == MaxEvents \in [Scopes -> Nat]
ASSUME MaxMovesAssumption == MaxMoves \in Nat
ASSUME NoneAssumption == None \notin Scopes

(* The cursor of a page-numbered provider says how many events to skip; any*)
(* other cursor is a token for the events up to number at of one scope.    *)
Cursor == [owner : Providers, scope : Scopes \cup {None}, at : Nat]
Key == [scope : Scopes, cursor : Cursor \cup {None}]
Request == [scope : Scopes, cursor : Cursor \cup {None}, append : BOOLEAN, force : BOOLEAN]
Retry == [cursor : Cursor \cup {None}, append : BOOLEAN, force : BOOLEAN]
Page == [items : SUBSET Nat, next : Cursor \cup {None}, asOf : Nat, overtaken : BOOLEAN]
Entry == [key : Key, items : SUBSET Nat, next : Cursor \cup {None}]
Result == [items : SUBSET Nat, next : Cursor \cup {None},
           completeness : {"complete", "partial", "stale"}, cached : BOOLEAN, upTo : Nat]
Checkpoint == [next : Cursor \cup {None}, complete : BOOLEAN, old : BOOLEAN]
Heads == UNION {0..MaxEvents[s] : s \in Scopes}

ASSUME NoneIsNoRecord ==
  /\ None \notin Cursor /\ None \notin Retry /\ None \notin Result
  /\ None \notin Checkpoint /\ None \notin Request /\ None \notin Page

VARIABLES
  head,         \* [Scopes -> Nat], the events on the chain
  events,       \* [Scopes -> SUBSET Nat], ledger_events through ledger_event_scopes
  checkpoint,   \* sync_checkpoints
  disk,         \* the cache file
  cache,        \* each process's DiskCacheStore
  inputs,       \* the scope the input widgets of each view name
  items,        \* _raw_items
  next,         \* _next_cursor
  retry,        \* _retry_request
  shown,        \* the last result shown
  pc,           \* where each background task stands
  request,      \* its arguments
  canceled,     \* _TaskState.is_canceled
  page,         \* the provider's page it holds
  result,       \* the result it holds
  moves,        \* counts towards MaxMoves
  chain         \* history variable, like page.overtaken

(* chain[s] describes the pages stored since a first page of s was stored: *)
(* how many events the provider listed then, and whether each page since   *)
(* was requested with the cursor the checkpoint held.  A page number only  *)
(* continues what was stored before its page was fetched, hence overtaken: *)
(* another process stored a page of the scope since.                       *)
Chain == [first : Nat, inOrder : BOOLEAN]

ledgerVars == <<events, checkpoint, chain>>
cacheVars == <<disk, cache>>
viewVars == <<items, next, retry, shown>>
taskVars == <<pc, request, canceled, page, result>>
vars == <<head, ledgerVars, cacheVars, inputs, viewVars, taskVars, moves>>

Init ==
  /\ head \in {h \in [Scopes -> Heads] : \A s \in Scopes : h[s] <= MaxEvents[s]}
  /\ events = [s \in Scopes |-> {}]
  /\ checkpoint = [s \in Scopes |-> None]
  /\ chain = [s \in Scopes |-> [first |-> 0, inOrder |-> FALSE]]
  /\ disk = {} /\ cache = [v \in Views |-> {}]
  /\ inputs \in [Views -> Scopes]
  /\ items = [v \in Views |-> {}]
  /\ next = [v \in Views |-> None]
  /\ retry = [v \in Views |-> None]
  /\ shown = [v \in Views |-> None]
  /\ pc = [v \in Views |-> "idle"]
  /\ request = [v \in Views |-> None]
  /\ canceled = [v \in Views |-> FALSE]
  /\ page = [v \in Views |-> None]
  /\ result = [v \in Views |-> None]
  /\ moves = 0

IsLoading(v) == pc[v] # "idle"
Goto(v, label) == pc' = [pc EXCEPT ![v] = label]

-----------------------------------------------------------------------------
(* The user.  Buttons but Cancel are disabled while loading.  So are the   *)
(* inputs, but applying a saved view sets them all the same.               *)

ChangeInputs(v) ==
  /\ \E s \in Scopes \ {inputs[v]} : inputs' = [inputs EXCEPT ![v] = s]
  /\ UNCHANGED <<head, ledgerVars, cacheVars, viewVars, taskVars, moves>>

\* _load_page: hand a request for what the inputs name to the task runner.
LoadPage(v, cursor, append, force) ==
  /\ ~IsLoading(v)
  /\ Goto(v, "queued")
  /\ request' = [request EXCEPT ![v] =
       [scope |-> inputs[v], cursor |-> cursor, append |-> append, force |-> force]]
  /\ UNCHANGED <<head, ledgerVars, cacheVars, inputs, canceled, page, result>>

\* Load, Refresh and the auto-refresh timer.
StartOver(v, force) ==
  /\ moves < MaxMoves /\ moves' = moves + 1
  /\ LoadPage(v, None, FALSE, force)
  /\ items' = [items EXCEPT ![v] = {}]
  /\ next' = [next EXCEPT ![v] = None]
  /\ shown' = [shown EXCEPT ![v] = None]
  /\ UNCHANGED retry

NextPage(v) ==
  /\ next[v] # None
  /\ LoadPage(v, next[v], TRUE, FALSE)
  /\ UNCHANGED <<viewVars, moves>>

RetryLast(v) ==
  /\ retry[v] # None
  /\ LoadPage(v, retry[v].cursor, retry[v].append, retry[v].force)
  /\ UNCHANGED <<viewVars, moves>>

Cancel(v) ==
  /\ moves < MaxMoves /\ moves' = moves + 1
  /\ IsLoading(v) /\ ~canceled[v]
  /\ canceled' = [canceled EXCEPT ![v] = TRUE]
  /\ UNCHANGED <<head, ledgerVars, cacheVars, inputs, viewVars, pc, request, page, result>>

-----------------------------------------------------------------------------
(* DiskCacheStore: every change is written through to the shared file.     *)

KeyOf(r) == [scope |-> r.scope, cursor |-> r.cursor]
Hits(v, key) == {e \in cache[v] : e.key = key}

Store(v, entries) ==
  /\ cache' = [cache EXCEPT ![v] = entries]
  /\ disk' = entries

ClearCache(v) ==
  /\ ~IsLoading(v)
  /\ Store(v, cache[v] \ Hits(v, [scope |-> inputs[v], cursor |-> None]))
  /\ UNCHANGED <<head, ledgerVars, inputs, viewVars, taskVars, moves>>

\* An entry outlives its time to live, or is evicted for room.
Expire(v) ==
  /\ \E e \in cache[v] : Store(v, cache[v] \ {e})
  /\ UNCHANGED <<head, ledgerVars, inputs, viewVars, taskVars, moves>>

-----------------------------------------------------------------------------
(* The provider pool and the providers behind it.                          *)

\* Mutant: a continuation falls over to another provider.
AnsweringAny(r) == Providers

\* A fresh request may be answered by any provider, those before it in the
\* saved order having failed; a continuation only by the cursor's owner.
Answering(r) == IF r.cursor = None THEN Providers ELSE {r.cursor.owner}

\* The events a page leaves older than itself.
Remaining(p, r) ==
  IF r.cursor = None THEN head[r.scope]
  ELSE IF p \in PageNumbered THEN head[r.scope] - r.cursor.at ELSE r.cursor.at

\* The page number of a page-numbered cursor says nothing of the wallet.
Accepts(p, r) == r.cursor # None /\ p \notin PageNumbered => r.cursor.scope = r.scope

CursorAt(p, r, left) ==
  IF p \in PageNumbered
    THEN [owner |-> p, scope |-> None, at |-> head[r.scope] - left]
    ELSE [owner |-> p, scope |-> r.scope, at |-> left]

\* Mutant: off by one, the oldest event gets no page of its own.
CursorToSecond(p, r, left) == IF left <= 1 THEN None ELSE CursorAt(p, r, left)

NextCursor(p, r, left) == IF left <= 0 THEN None ELSE CursorAt(p, r, left)

\* The page p returns.
Listed(p, r) ==
  LET newest == Remaining(p, r) IN
  [items |-> {e \in 1..newest : newest - PageSize[p] < e},
   next |-> NextCursor(p, r, newest - PageSize[p]),
   asOf |-> head[r.scope], overtaken |-> FALSE]

-----------------------------------------------------------------------------
(* ActivityService.load_activity on the worker thread.                     *)

\* Mutant: a checkpoint with a next page passes for a complete one.
ClaimComplete(row) == IF row.old THEN "stale" ELSE "complete"

\* _persisted_completeness: a complete history is stale after a day.
PersistedCompleteness(row) ==
  IF ~row.complete THEN "partial" ELSE IF row.old THEN "stale" ELSE "complete"

\* How many events the pages stored in order must cover when the last is in.
Covered(c) == IF c.inOrder THEN c.first ELSE 0

FinishTask(v) ==
  /\ Goto(v, "idle")
  /\ request' = [request EXCEPT ![v] = None]
  /\ canceled' = [canceled EXCEPT ![v] = FALSE]
  /\ page' = [page EXCEPT ![v] = None]
  /\ result' = [result EXCEPT ![v] = None]

\* Cancelled before a worker took it, so that the operation never runs, or
\* stopped by a ValidationError for a name that does not resolve.
Skip(v) ==
  /\ pc[v] = "queued"
  /\ FinishTask(v)
  /\ UNCHANGED <<head, ledgerVars, cacheVars, inputs, viewVars, moves>>

\* A cached page carries no completeness: the result has its default, COMPLETE.
CachedPage(v) ==
  /\ pc[v] = "queued" /\ ~canceled[v] /\ ~request[v].force
  /\ \E e \in Hits(v, KeyOf(request[v])) :
       result' = [result EXCEPT ![v] =
         [items |-> e.items, next |-> e.next, completeness |-> "complete", cached |-> TRUE,
          upTo |-> 0]]
  /\ Goto(v, "deliver")
  /\ UNCHANGED <<head, ledgerVars, cacheVars, inputs, viewVars, request, canceled, page,
                 moves>>

UsesLedger(v) ==
  LET r == request[v] IN
  ~r.force /\ Hits(v, KeyOf(r)) = {} /\ r.cursor = None /\ checkpoint[r.scope] # None

\* _load_persisted_page, first transaction.
ReadCheckpoint(v) ==
  /\ pc[v] = "queued" /\ ~canceled[v] /\ UsesLedger(v)
  /\ LET s == request[v].scope IN
     result' = [result EXCEPT ![v] =
       [items |-> {}, next |-> None, cached |-> FALSE, upTo |-> Covered(chain[s]),
        completeness |-> PersistedCompleteness(checkpoint[s])]]
  /\ Goto(v, "load_page")
  /\ UNCHANGED <<head, ledgerVars, cacheVars, inputs, viewVars, request, canceled, page,
                 moves>>

NoCachedPage(v) == request[v].force \/ Hits(v, KeyOf(request[v])) = {}

AskProvider(v) ==
  /\ pc[v] = "queued" /\ ~canceled[v] /\ NoCachedPage(v) /\ ~UsesLedger(v)
  /\ Goto(v, "fetch")
  /\ UNCHANGED <<head, ledgerVars, cacheVars, inputs, viewVars, request, canceled, page,
                 result, moves>>

\* EventLedgerRepository.load_page: all events and the checkpoint's cursor.
LoadedPage(v, s) ==
  [result[v] EXCEPT !.items = events[s],
     !.next = IF checkpoint[s] = None THEN None ELSE checkpoint[s].next]

\* _load_persisted_page, second transaction.
ReadPage(v) ==
  /\ pc[v] = "load_page"
  /\ result' = [result EXCEPT ![v] = LoadedPage(v, request[v].scope)]
  /\ Goto(v, "deliver")
  /\ UNCHANGED <<head, ledgerVars, cacheVars, inputs, viewVars, request, canceled, page,
                 moves>>

Fetch(v) ==
  /\ pc[v] = "fetch"
  /\ \E p \in Answering(request[v]) :
       /\ Accepts(p, request[v])
       /\ page' = [page EXCEPT ![v] = Listed(p, request[v])]
  /\ Goto(v, "persist")
  /\ UNCHANGED <<head, ledgerVars, cacheVars, inputs, viewVars, request, canceled, result,
                 moves>>

Chained(r, pg) ==
  IF r.cursor = None THEN [first |-> pg.asOf, inOrder |-> TRUE]
  ELSE IF checkpoint[r.scope] = None THEN [first |-> pg.asOf, inOrder |-> FALSE]
  ELSE [chain[r.scope] EXCEPT !.inOrder =
          /\ chain[r.scope].inOrder
          /\ checkpoint[r.scope].next = r.cursor
          /\ r.cursor.owner \in PageNumbered => ~pg.overtaken]

\* The pages fetched for scope s are overtaken when v stores one.
Overtaken(v, s) ==
  [w \in Views |->
     IF w = v THEN None
     ELSE IF page[w] # None /\ request[w].scope = s THEN [page[w] EXCEPT !.overtaken = TRUE]
     ELSE page[w]]

\* Mutant: a page replaces what the scope had.
StoredAnew(r, pg) == pg.items

StoredEvents(r, pg) == events[r.scope] \cup pg.items

\* persist_page, one transaction.
PersistPage(v) ==
  LET r == request[v]  pg == page[v] IN
  /\ pc[v] = "persist"
  /\ events' = [events EXCEPT ![r.scope] = StoredEvents(r, pg)]
  /\ checkpoint' = [checkpoint EXCEPT ![r.scope] =
       [next |-> pg.next, complete |-> pg.next = None, old |-> FALSE]]
  /\ chain' = [chain EXCEPT ![r.scope] = Chained(r, pg)]
  /\ result' = [result EXCEPT ![v] =
       [items |-> {}, next |-> None, cached |-> FALSE, upTo |-> Covered(Chained(r, pg)),
        completeness |-> IF pg.next = None THEN "complete" ELSE "partial"]]
  /\ page' = Overtaken(v, r.scope)
  /\ Goto(v, "reload")
  /\ UNCHANGED <<head, cacheVars, inputs, viewVars, request, canceled, moves>>

\* Mutant: a page is cached with the cursor it was requested with.
CachedWithRequest(v, loaded) ==
  [key |-> KeyOf(request[v]), items |-> loaded.items, next |-> request[v].cursor]

CachedEntry(v, loaded) ==
  [key |-> KeyOf(request[v]), items |-> loaded.items, next |-> loaded.next]

\* load_page in a transaction of its own, then _save_cached_page.
Reload(v) ==
  LET loaded == LoadedPage(v, request[v].scope) IN
  /\ pc[v] = "reload"
  /\ result' = [result EXCEPT ![v] = loaded]
  /\ Store(v, (cache[v] \ Hits(v, KeyOf(request[v]))) \cup {CachedEntry(v, loaded)})
  /\ Goto(v, "deliver")
  /\ UNCHANGED <<head, ledgerVars, inputs, viewVars, request, canceled, page, moves>>

\* Any step of the operation may raise.
Fail(v) ==
  /\ pc[v] \in {"load_page", "fetch", "persist", "reload"}
  /\ Goto(v, "failed")
  /\ page' = [page EXCEPT ![v] = None]
  /\ result' = [result EXCEPT ![v] = None]
  /\ UNCHANGED <<head, ledgerVars, cacheVars, inputs, viewVars, request, canceled, moves>>

-----------------------------------------------------------------------------
(* Delivery on the GUI thread: the result or error signal and the finished *)
(* signal after it.                                                        *)

Shown(r, was) == {<<r.scope, e>> : e \in was}

Deliver(v) ==
  /\ pc[v] = "deliver" /\ ~canceled[v]
  /\ LET r == request[v]  loaded == Shown(r, result[v].items) IN
     items' = [items EXCEPT ![v] = IF r.append THEN @ \cup loaded ELSE loaded]
  /\ next' = [next EXCEPT ![v] = result[v].next]
  /\ shown' = [shown EXCEPT ![v] = result[v]]
  /\ retry' = [retry EXCEPT ![v] = None]
  /\ FinishTask(v)
  /\ UNCHANGED <<head, ledgerVars, cacheVars, inputs, moves>>

DeliverError(v) ==
  /\ pc[v] = "failed" /\ ~canceled[v]
  /\ retry' = [retry EXCEPT ![v] =
       [cursor |-> request[v].cursor, append |-> request[v].append,
        force |-> request[v].force]]
  /\ FinishTask(v)
  /\ UNCHANGED <<head, ledgerVars, cacheVars, inputs, items, next, shown, moves>>

\* The signals of a cancelled task are dropped, whatever it stored.
Suppress(v) ==
  /\ pc[v] \in {"deliver", "failed"} /\ canceled[v]
  /\ FinishTask(v)
  /\ UNCHANGED <<head, ledgerVars, cacheVars, inputs, viewVars, moves>>

-----------------------------------------------------------------------------
(* The environment.                                                        *)

\* The process dies and is started again.
Restart(v) ==
  /\ moves < MaxMoves /\ moves' = moves + 1
  /\ FinishTask(v)
  /\ items' = [items EXCEPT ![v] = {}]
  /\ next' = [next EXCEPT ![v] = None]
  /\ retry' = [retry EXCEPT ![v] = None]
  /\ shown' = [shown EXCEPT ![v] = None]
  /\ cache' = [cache EXCEPT ![v] = disk]
  /\ UNCHANGED <<head, ledgerVars, disk, inputs>>

NewEvent ==
  /\ \E s \in Scopes : head[s] < MaxEvents[s] /\ head' = [head EXCEPT ![s] = @ + 1]
  /\ UNCHANGED <<ledgerVars, cacheVars, inputs, viewVars, taskVars, moves>>

\* A day passes since the checkpoint was written.
Age ==
  /\ \E s \in Scopes :
       /\ checkpoint[s] # None
       /\ ~checkpoint[s].old
       /\ checkpoint' = [checkpoint EXCEPT ![s].old = TRUE]
  /\ UNCHANGED <<head, events, chain, cacheVars, inputs, viewVars, taskVars, moves>>

User(v) ==
  \/ ChangeInputs(v)
  \/ \E force \in BOOLEAN : StartOver(v, force)
  \/ NextPage(v)
  \/ RetryLast(v)
  \/ Cancel(v)
  \/ ClearCache(v)

Task(v) ==
  \/ Skip(v)
  \/ CachedPage(v)
  \/ ReadCheckpoint(v)
  \/ AskProvider(v)
  \/ ReadPage(v)
  \/ Fetch(v)
  \/ PersistPage(v)
  \/ Reload(v)
  \/ Fail(v)
  \/ Deliver(v)
  \/ DeliverError(v)
  \/ Suppress(v)

Next ==
  \/ \E v \in Views : User(v) \/ Task(v) \/ Expire(v) \/ Restart(v)
  \/ NewEvent
  \/ Age

Spec == Init /\ [][Next]_vars

-----------------------------------------------------------------------------
(* Correctness.                                                            *)

TypeOK ==
  /\ head \in [Scopes -> Nat]
  /\ events \in [Scopes -> SUBSET Nat]
  /\ checkpoint \in [Scopes -> Checkpoint \cup {None}]
  /\ chain \in [Scopes -> Chain]
  /\ disk \in SUBSET Entry /\ cache \in [Views -> SUBSET Entry]
  /\ inputs \in [Views -> Scopes]
  /\ items \in [Views -> SUBSET (Scopes \X Nat)]
  /\ next \in [Views -> Cursor \cup {None}]
  /\ retry \in [Views -> Retry \cup {None}]
  /\ shown \in [Views -> Result \cup {None}]
  /\ pc \in [Views -> {"idle", "queued", "load_page", "fetch", "persist", "reload",
                       "deliver", "failed"}]
  /\ request \in [Views -> Request \cup {None}]
  /\ canceled \in [Views -> BOOLEAN]
  /\ page \in [Views -> Page \cup {None}]
  /\ result \in [Views -> Result \cup {None}]
  /\ moves \in 0..MaxMoves

(* A scope recorded as complete whose pages were stored one after the other*)
(* holds every event the provider listed when its first page was fetched,  *)
(* whatever failed, was cancelled, restarted, served by another process or *)
(* appeared on the chain in between.                                       *)
InOrderIsWhole ==
  \A s \in Scopes :
    checkpoint[s] # None /\ checkpoint[s].complete /\ chain[s].inOrder
      => 1..chain[s].first \subseteq events[s]

(* A result shown as complete and not taken from the page cache holds every*)
(* event such a scope had to hold, although its completeness and its events*)
(* are read in two transactions.                                           *)
ShownCompleteIsWhole ==
  \A v \in Views :
    shown[v] # None /\ shown[v].completeness = "complete"
      => 1..shown[v].upTo \subseteq shown[v].items

(* Everything a view shows is durable: it was stored before it was shown,  *)
(* and nothing that happens later takes it out of the ledger.              *)
ShownIsDurable ==
  \A v \in Views : \A i \in items[v] : i[2] \in events[i[1]]

(* The module promises to report partial results "instead of presenting    *)
(* incomplete history as complete" (activity_service.py:4).  A scope       *)
(* recorded as complete holds every event the provider listed when the     *)
(* first of its pages was stored.                                          *)
CompleteIsWhole ==
  \A s \in Scopes :
    checkpoint[s] # None /\ checkpoint[s].complete => 1..chain[s].first \subseteq events[s]

(* The same promise for what the view shows: a result with more pages to   *)
(* load is not labelled complete.                                          *)
ShownPartialIsNotComplete ==
  \A v \in Views : shown[v] # None /\ shown[v].next # None => shown[v].completeness # "complete"

(* The user keeps loading the next page or retrying, and no request, store *)
(* or read fails for ever.  MaxMoves says that the user stops cancelling.  *)
Fairness ==
  \A v \in Views :
    /\ WF_vars(NextPage(v)) /\ WF_vars(RetryLast(v)) /\ WF_vars(Task(v))
    /\ SF_vars(CachedPage(v) \/ ReadCheckpoint(v) \/ AskProvider(v))
    /\ SF_vars(ReadPage(v) \/ Fetch(v)) /\ SF_vars(PersistPage(v)) /\ SF_vars(Reload(v))

LiveSpec == Spec /\ Fairness

\* The inputs were edited since the page whose cursor would be continued.
IsForeign(v) == next[v] # None /\ next[v].scope \notin {None, inputs[v]}

(* Paging comes to an end: whoever keeps pressing Next reaches a view with *)
(* no next page, also while new activity arrives and entries expire, unless*)
(* the inputs come to name another wallet than the cursor's.               *)
PagingEnds ==
  \A v \in Views : next[v] # None ~> (next[v] = None /\ ~IsLoading(v)) \/ IsForeign(v)
=============================================================================
