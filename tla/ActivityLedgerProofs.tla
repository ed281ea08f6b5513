----------------------- MODULE ActivityLedgerProofs -----------------------
(***************************************************************************)
(* Safety of ActivityLedger for any number of processes, scopes, providers *)
(* and events, and any page sizes.                                         *)
(***************************************************************************)
EXTENDS ActivityLedger, TLAPS

(* What a background task holds at each of its steps.                      *)
TasksOK ==
  \A v \in Views :
    /\ pc[v] # "idle" => request[v] # None
    /\ pc[v] = "persist" => page[v] # None
    /\ pc[v] \in {"load_page", "reload", "deliver"} => result[v] # None

Typed == TypeOK /\ TasksOK

-----------------------------------------------------------------------------
(* The provider.                                                           *)

\* Where the events a cursor stands for end, when the scope has h events.
Low(c, h) ==
  IF c = None THEN 0 ELSE IF c.owner \in PageNumbered THEN h - c.at ELSE c.at

\* The newest event the page of request r may hold, when the scope has h events.
High(r, h) == IF r.cursor = None THEN h ELSE Low(r.cursor, h)

LEMMA CursorType ==
  ASSUME head \in [Scopes -> Nat], NEW p \in Providers, NEW r \in Request,
         NEW left \in Int, left <= head[r.scope] \/ p \notin PageNumbered
  PROVE  /\ NextCursor(p, r, left) \in Cursor \cup {None}
         /\ Low(NextCursor(p, r, left), head[r.scope]) = IF left <= 0 THEN 0 ELSE left
<1>1. r.scope \in Scopes /\ head[r.scope] \in Nat
  BY DEF Request
<1>2. CASE left <= 0
  BY <1>2 DEF NextCursor, Low
<1>3. CASE ~(left <= 0)
  <2>1. CursorAt(p, r, left) \in Cursor
    BY <1>1, <1>3 DEF CursorAt, Cursor
  <2>2. CursorAt(p, r, left) # None
    BY <2>1, NoneIsNoRecord
  <2>3. Low(CursorAt(p, r, left), head[r.scope]) = left
    BY <1>1, <1>3, <2>2 DEF CursorAt, Low
  <2> QED
    BY <1>3, <2>1, <2>3 DEF NextCursor
<1> QED
  BY <1>2, <1>3

LEMMA RemainingIsHigh ==
  ASSUME head \in [Scopes -> Nat], NEW p \in Providers, NEW r \in Request, p \in Answering(r)
  PROVE  /\ Remaining(p, r) = High(r, head[r.scope])
         /\ Remaining(p, r) \in Int
         /\ Remaining(p, r) <= head[r.scope] \/ p \notin PageNumbered
<1>1. r.scope \in Scopes /\ head[r.scope] \in Nat
  BY DEF Request
<1>2. CASE r.cursor = None
  BY <1>1, <1>2 DEF Remaining, High
<1>3. CASE r.cursor # None
  <2>1. r.cursor \in Cursor /\ r.cursor.owner = p /\ r.cursor.at \in Nat
    BY <1>3 DEF Request, Cursor, Answering
  <2> QED
    BY <1>1, <1>3, <2>1 DEF Remaining, High, Low
<1> QED
  BY <1>2, <1>3

\* A page holds every event between the cursor it answers and the next one.
LEMMA ListedPage ==
  ASSUME head \in [Scopes -> Nat], NEW p \in Providers, NEW r \in Request, p \in Answering(r)
  PROVE  LET pg == Listed(p, r) IN
         /\ pg \in Page /\ pg # None
         /\ pg.asOf = head[r.scope] /\ ~pg.overtaken
         /\ \A e \in Nat \ {0} : Low(pg.next, pg.asOf) < e /\ e <= High(r, pg.asOf) => e \in pg.items
<1> DEFINE newest == Remaining(p, r)
           left == newest - PageSize[p]
           n == NextCursor(p, r, left)
           listed == {e \in 1..newest : left < e}
           pg == [items |-> listed, next |-> n, asOf |-> head[r.scope], overtaken |-> FALSE]
<1>1. head[r.scope] \in Nat /\ PageSize[p] \in Nat \ {0}
  BY PageSizeAssumption DEF Request
<1>2. /\ newest = High(r, head[r.scope]) /\ newest \in Int
      /\ newest <= head[r.scope] \/ p \notin PageNumbered
  BY RemainingIsHigh
<1>3. left \in Int /\ (left <= head[r.scope] \/ p \notin PageNumbered)
  BY <1>1, <1>2
<1>4. n \in Cursor \cup {None} /\ Low(n, head[r.scope]) = IF left <= 0 THEN 0 ELSE left
  BY <1>3, CursorType
<1>5. listed \in SUBSET Nat
  BY <1>2
<1>6. pg \in Page /\ pg # None
  <2> HIDE DEF n, listed
  <2>1. pg \in Page
    BY <1>1, <1>4, <1>5 DEF Page
  <2> QED
    BY <2>1, NoneIsNoRecord
<1>7. \A e \in Nat \ {0} : Low(n, head[r.scope]) < e /\ e <= newest => e \in listed
  <2> HIDE DEF n, newest
  <2> QED
    BY <1>2, <1>3, <1>4 DEF newest
<1>8. Listed(p, r) = pg
  BY DEF Listed
<1> QED
  BY <1>2, <1>6, <1>7, <1>8

-----------------------------------------------------------------------------
(* Types.                                                                  *)

PCs == {"idle", "queued", "load_page", "fetch", "persist", "reload", "deliver", "failed"}

\* The tables and caches, and the chain.
SharedTypes ==
  /\ head \in [Scopes -> Nat]
  /\ events \in [Scopes -> SUBSET Nat]
  /\ checkpoint \in [Scopes -> Checkpoint \cup {None}]
  /\ chain \in [Scopes -> Chain]
  /\ disk \in SUBSET Entry /\ cache \in [Views -> SUBSET Entry]
  /\ moves \in 0..MaxMoves

ViewTypes ==
  /\ inputs \in [Views -> Scopes]
  /\ items \in [Views -> SUBSET (Scopes \X Nat)]
  /\ next \in [Views -> Cursor \cup {None}]
  /\ retry \in [Views -> Retry \cup {None}]
  /\ shown \in [Views -> Result \cup {None}]

TaskTypes ==
  /\ pc \in [Views -> PCs]
  /\ request \in [Views -> Request \cup {None}]
  /\ canceled \in [Views -> BOOLEAN]
  /\ page \in [Views -> Page \cup {None}]
  /\ result \in [Views -> Result \cup {None}]
  /\ TasksOK

LEMMA TypedParts == Typed <=> SharedTypes /\ ViewTypes /\ TaskTypes
BY DEF Typed, TypeOK, SharedTypes, ViewTypes, TaskTypes, PCs

LEMMA TypedPartsNext == Typed' <=> SharedTypes' /\ ViewTypes' /\ TaskTypes'
BY DEF Typed, TypeOK, SharedTypes, ViewTypes, TaskTypes, PCs, TasksOK

LEMMA FinishTypes ==
  ASSUME TaskTypes, NEW v \in Views, FinishTask(v)
  PROVE  TaskTypes'
BY DEF TaskTypes, FinishTask, Goto, TasksOK, PCs

LEMMA LoadTypes ==
  ASSUME TaskTypes, ViewTypes, NEW v \in Views, NEW c \in Cursor \cup {None},
         NEW append \in BOOLEAN, NEW force \in BOOLEAN, LoadPage(v, c, append, force)
  PROVE  TaskTypes'
<1> DEFINE r == [scope |-> inputs[v], cursor |-> c, append |-> append, force |-> force]
<1>1. r \in Request /\ r # None
  <2>1. r \in Request
    BY DEF ViewTypes, Request
  <2> QED
    BY <2>1, NoneIsNoRecord
<1>2. request' = [request EXCEPT ![v] = r]
  BY DEF LoadPage
<1> HIDE DEF r
<1> QED
  BY <1>1, <1>2 DEF TaskTypes, LoadPage, Goto, TasksOK, PCs

LEMMA StoreTypes ==
  ASSUME SharedTypes, NEW v \in Views, NEW es \in SUBSET Entry, Store(v, es)
  PROVE  disk' \in SUBSET Entry /\ cache' \in [Views -> SUBSET Entry]
BY DEF SharedTypes, Store

\* The user's actions.
LEMMA UserTypes ==
  ASSUME Typed, NEW v \in Views, User(v)
  PROVE  Typed'
<1>1. SharedTypes /\ ViewTypes /\ TaskTypes
  BY TypedParts
<1>2. CASE ChangeInputs(v)
  <2>1. ViewTypes'
    BY <1>1, <1>2 DEF ViewTypes, ChangeInputs, viewVars
  <2>2. SharedTypes' /\ TaskTypes'
    BY <1>1, <1>2 DEF SharedTypes, TaskTypes, TasksOK, ChangeInputs, ledgerVars, cacheVars, taskVars
  <2> QED
    BY <2>1, <2>2, TypedPartsNext
<1>3. ASSUME NEW force \in BOOLEAN, StartOver(v, force)
      PROVE  Typed'
  <2>1. TaskTypes'
    BY <1>1, <1>3, LoadTypes DEF StartOver
  <2>2. ViewTypes'
    BY <1>1, <1>3 DEF ViewTypes, StartOver, LoadPage
  <2>3. SharedTypes'
    BY <1>1, <1>3, MaxMovesAssumption DEF SharedTypes, StartOver, LoadPage, ledgerVars, cacheVars
  <2> QED
    BY <2>1, <2>2, <2>3, TypedPartsNext
<1>4. CASE NextPage(v)
  <2>1. TaskTypes'
    BY <1>1, <1>4, LoadTypes DEF NextPage, ViewTypes
  <2>2. ViewTypes' /\ SharedTypes'
    BY <1>1, <1>4 DEF ViewTypes, SharedTypes, NextPage, LoadPage, viewVars, ledgerVars, cacheVars
  <2> QED
    BY <2>1, <2>2, TypedPartsNext
<1>5. CASE RetryLast(v)
  <2>1. retry[v] \in Retry
    BY <1>1, <1>5 DEF RetryLast, ViewTypes
  <2>2. TaskTypes'
    BY <1>1, <1>5, <2>1, LoadTypes DEF RetryLast, Retry
  <2>3. ViewTypes' /\ SharedTypes'
    BY <1>1, <1>5 DEF ViewTypes, SharedTypes, RetryLast, LoadPage, viewVars, ledgerVars, cacheVars
  <2> QED
    BY <2>2, <2>3, TypedPartsNext
<1>6. CASE Cancel(v)
  <2>1. TaskTypes'
    BY <1>1, <1>6 DEF TaskTypes, TasksOK, Cancel
  <2>2. ViewTypes' /\ SharedTypes'
    BY <1>1, <1>6, MaxMovesAssumption DEF ViewTypes, SharedTypes, Cancel, viewVars, ledgerVars, cacheVars
  <2> QED
    BY <2>1, <2>2, TypedPartsNext
<1>7. CASE ClearCache(v)
  <2>1. cache[v] \ Hits(v, [scope |-> inputs[v], cursor |-> None]) \in SUBSET Entry
    BY <1>1 DEF SharedTypes
  <2>2. disk' \in SUBSET Entry /\ cache' \in [Views -> SUBSET Entry]
    BY <1>1, <1>7, <2>1, StoreTypes DEF ClearCache
  <2>3. SharedTypes' /\ ViewTypes' /\ TaskTypes'
    BY <1>1, <1>7, <2>2 DEF SharedTypes, ViewTypes, TaskTypes, TasksOK, ClearCache, ledgerVars, viewVars, taskVars
  <2> QED
    BY <2>3, TypedPartsNext
<1> QED
  BY <1>2, <1>3, <1>4, <1>5, <1>6, <1>7 DEF User

\* The result each step of the operation makes.
LEMMA LoadedType ==
  ASSUME SharedTypes, NEW v \in Views, result[v] \in Result, NEW s \in Scopes
  PROVE  LoadedPage(v, s) \in Result /\ LoadedPage(v, s) # None
<1> DEFINE n == IF checkpoint[s] = None THEN None ELSE checkpoint[s].next
           r == [result[v] EXCEPT !.items = events[s], !.next = n]
<1>1. n \in Cursor \cup {None} /\ events[s] \in SUBSET Nat
  BY DEF SharedTypes, Checkpoint
<1>2. r \in Result
  <2> HIDE DEF n
  <2> QED BY <1>1 DEF Result
<1>3. LoadedPage(v, s) = r
  BY DEF LoadedPage
<1> QED
  BY <1>2, <1>3, NoneIsNoRecord

LEMMA CoveredType ==
  ASSUME NEW c \in Chain
  PROVE  Covered(c) \in Nat
BY DEF Covered, Chain

LEMMA ChainedType ==
  ASSUME SharedTypes, NEW r \in Request, NEW pg \in Page
  PROVE  Chained(r, pg) \in Chain
<1>1. r.scope \in Scopes /\ pg.asOf \in Nat /\ chain[r.scope] \in Chain
  BY DEF SharedTypes, Request, Page
<1>2. \A b \in BOOLEAN : [chain[r.scope] EXCEPT !.inOrder = b] \in Chain
  BY <1>1 DEF Chain
<1>3. (chain[r.scope].inOrder /\ checkpoint[r.scope].next = r.cursor
        /\ (r.cursor.owner \in PageNumbered => ~pg.overtaken)) \in BOOLEAN
  OBVIOUS
<1> QED
  BY <1>1, <1>2, <1>3 DEF Chained, Chain

\* A step of the operation that stores nothing.
LEMMA ReadTypes ==
  ASSUME Typed, NEW v \in Views,
         CachedPage(v) \/ ReadCheckpoint(v) \/ AskProvider(v) \/ ReadPage(v) \/ Fetch(v) \/ Fail(v)
  PROVE  Typed'
<1>1. SharedTypes /\ ViewTypes /\ TaskTypes
  BY TypedParts
<1>2. SharedTypes' /\ ViewTypes'
  BY <1>1 DEF SharedTypes, ViewTypes, CachedPage, ReadCheckpoint, AskProvider, ReadPage, Fetch, Fail,
              ledgerVars, cacheVars, viewVars
<1>3. TaskTypes'
  <2>1. CASE CachedPage(v)
    <3>1. PICK e \in Hits(v, KeyOf(request[v])) : result' = [result EXCEPT ![v] =
            [items |-> e.items, next |-> e.next, completeness |-> "complete", cached |-> TRUE,
             upTo |-> 0]]
      BY <2>1, Zenon DEF CachedPage
    <3>2. e \in Entry
      BY <1>1, <3>1 DEF SharedTypes, Hits
    <3>3. [items |-> e.items, next |-> e.next, completeness |-> "complete", cached |-> TRUE,
           upTo |-> 0] \in Result
      BY <3>2 DEF Entry, Result
    <3> DEFINE x == [items |-> e.items, next |-> e.next, completeness |-> "complete",
                     cached |-> TRUE, upTo |-> 0]
    <3>4. x \in Result \cup {None} /\ x # None /\ result' = [result EXCEPT ![v] = x]
      BY <3>1, <3>3, NoneIsNoRecord
    <3> HIDE DEF x
    <3> QED
      BY <1>1, <2>1, <3>4 DEF TaskTypes, TasksOK, CachedPage, Goto, PCs
  <2>2. CASE ReadCheckpoint(v)
    <3> DEFINE s == request[v].scope
               x == [items |-> {}, next |-> None, cached |-> FALSE, upTo |-> Covered(chain[s]),
                     completeness |-> PersistedCompleteness(checkpoint[s])]
    <3>1. request[v] \in Request
      BY <1>1, <2>2 DEF TaskTypes, TasksOK, ReadCheckpoint
    <3>2. Covered(chain[s]) \in Nat
      BY <1>1, <3>1, CoveredType DEF SharedTypes, Request
    <3>3. PersistedCompleteness(checkpoint[s]) \in {"complete", "partial", "stale"}
      BY DEF PersistedCompleteness
    <3>4. x \in Result /\ result' = [result EXCEPT ![v] = x]
      BY <2>2, <3>2, <3>3 DEF Result, ReadCheckpoint
    <3>5. x # None
      BY <3>4, NoneIsNoRecord
    <3> HIDE DEF x
    <3> QED
      BY <1>1, <2>2, <3>4, <3>5 DEF TaskTypes, TasksOK, ReadCheckpoint, Goto, PCs
  <2>3. CASE AskProvider(v)
    BY <1>1, <2>3 DEF TaskTypes, TasksOK, AskProvider, Goto, PCs
  <2>4. CASE ReadPage(v)
    <3>1. request[v] \in Request /\ result[v] \in Result
      BY <1>1, <2>4 DEF TaskTypes, TasksOK, ReadPage
    <3>2. LoadedPage(v, request[v].scope) \in Result /\ LoadedPage(v, request[v].scope) # None
      BY <1>1, <3>1, LoadedType DEF Request
    <3> QED
      BY <1>1, <2>4, <3>2 DEF TaskTypes, TasksOK, ReadPage, Goto, PCs
  <2>5. CASE Fetch(v)
    <3>1. request[v] \in Request
      BY <1>1, <2>5 DEF TaskTypes, TasksOK, Fetch
    <3>2. PICK p \in Answering(request[v]) : page' = [page EXCEPT ![v] = Listed(p, request[v])]
      BY <2>5 DEF Fetch
    <3>3. p \in Providers
      BY <3>1, <3>2 DEF Answering, Request, Cursor
    <3>4. Listed(p, request[v]) \in Page /\ Listed(p, request[v]) # None
      BY <1>1, <3>1, <3>2, <3>3, ListedPage DEF SharedTypes
    <3> QED
      BY <1>1, <2>5, <3>2, <3>4 DEF TaskTypes, TasksOK, Fetch, Goto, PCs
  <2>6. CASE Fail(v)
    BY <1>1, <2>6 DEF TaskTypes, TasksOK, Fail, Goto, PCs
  <2> QED
    BY <2>1, <2>2, <2>3, <2>4, <2>5, <2>6
<1> QED
  BY <1>2, <1>3, TypedPartsNext

LEMMA PersistTypes ==
  ASSUME Typed, NEW v \in Views, PersistPage(v)
  PROVE  Typed'
<1> DEFINE r == request[v]
           pg == page[v]
           row == [next |-> pg.next, complete |-> pg.next = None, old |-> FALSE]
           x == [items |-> {}, next |-> None, cached |-> FALSE, upTo |-> Covered(Chained(r, pg)),
                 completeness |-> IF pg.next = None THEN "complete" ELSE "partial"]
<1>1. SharedTypes /\ ViewTypes /\ TaskTypes
  BY TypedParts
<1>2. r \in Request /\ pg \in Page /\ r.scope \in Scopes
  BY <1>1 DEF TaskTypes, TasksOK, PersistPage, Request
<1>3. Chained(r, pg) \in Chain /\ Covered(Chained(r, pg)) \in Nat
  BY <1>1, <1>2, ChainedType, CoveredType
<1>4. /\ events' = [events EXCEPT ![r.scope] = StoredEvents(r, pg)]
      /\ checkpoint' = [checkpoint EXCEPT ![r.scope] = row]
      /\ chain' = [chain EXCEPT ![r.scope] = Chained(r, pg)]
      /\ result' = [result EXCEPT ![v] = x]
      /\ page' = Overtaken(v, r.scope)
      /\ pc' = [pc EXCEPT ![v] = "reload"]
      /\ UNCHANGED <<head, cacheVars, inputs, viewVars, request, canceled, moves>>
  BY DEF PersistPage, Goto
<1>5. row \in Checkpoint /\ row # None
  <2>1. row \in Checkpoint
    BY <1>2 DEF Page, Checkpoint
  <2> QED
    BY <2>1, NoneIsNoRecord
<1>6. x \in Result /\ x # None
  <2>1. x \in Result
    BY <1>3 DEF Result
  <2> QED
    BY <2>1, NoneIsNoRecord
<1>7. StoredEvents(r, pg) \in SUBSET Nat
  BY <1>1, <1>2 DEF SharedTypes, StoredEvents, Page
<1>8. \A w \in Views : /\ page'[w] \in Page \cup {None}
                       /\ w # v /\ page[w] # None => page'[w] # None
  <2> TAKE w \in Views
  <2>1. \A g \in Page : [g EXCEPT !.overtaken = TRUE] \in Page
    BY DEF Page
  <2>2. page[w] # None => [page[w] EXCEPT !.overtaken = TRUE] \in Page
    BY <1>1, <2>1 DEF TaskTypes
  <2>3. page[w] # None => [page[w] EXCEPT !.overtaken = TRUE] # None
    BY <2>2, NoneIsNoRecord
  <2> QED
    BY <1>1, <1>4, <2>2, <2>3 DEF Overtaken, TaskTypes
<1>9. page' \in [Views -> Page \cup {None}]
  BY <1>4, <1>8 DEF Overtaken
<1>10. SharedTypes'
  <2> HIDE DEF row, r, pg, x
  <2> QED
    BY <1>1, <1>2, <1>3, <1>4, <1>5, <1>7 DEF SharedTypes, cacheVars
<1>11. ViewTypes'
  BY <1>1, <1>4 DEF ViewTypes, viewVars
<1>12. TaskTypes'
  <2> HIDE DEF row, r, pg, x
  <2>1. pc' \in [Views -> PCs] /\ result' \in [Views -> Result \cup {None}]
    BY <1>1, <1>4, <1>6 DEF TaskTypes, PCs
  <2>2. request' = request /\ canceled' = canceled
    BY <1>4
  <2>3. TasksOK'
    <3> SUFFICES ASSUME NEW w \in Views
                 PROVE  /\ pc'[w] # "idle" => request'[w] # None
                        /\ pc'[w] = "persist" => page'[w] # None
                        /\ pc'[w] \in {"load_page", "reload", "deliver"} => result'[w] # None
      BY DEF TasksOK
    <3>1. pc[v] = "persist" /\ pc \in [Views -> PCs] /\ TasksOK /\ result \in [Views -> Result \cup {None}]
      BY <1>1 DEF TaskTypes, PersistPage
    <3>2. CASE w = v
      BY <1>4, <1>6, <2>2, <3>1, <3>2 DEF TasksOK
    <3>3. CASE w # v
      BY <1>4, <1>8, <2>2, <3>1, <3>3 DEF TasksOK
    <3> QED
      BY <3>2, <3>3
  <2> QED
    BY <1>1, <1>9, <2>1, <2>2, <2>3 DEF TaskTypes
<1> QED
  BY <1>10, <1>11, <1>12, TypedPartsNext

LEMMA ReloadTypes ==
  ASSUME Typed, NEW v \in Views, Reload(v)
  PROVE  Typed'
<1> DEFINE r == request[v]
           x == LoadedPage(v, r.scope)
           es == (cache[v] \ Hits(v, KeyOf(r))) \cup {CachedEntry(v, x)}
<1>1. SharedTypes /\ ViewTypes /\ TaskTypes
  BY TypedParts
<1>2. r \in Request /\ result[v] \in Result
  BY <1>1 DEF TaskTypes, TasksOK, Reload
<1>3. x \in Result /\ x # None
  BY <1>1, <1>2, LoadedType DEF Request
<1>4. CachedEntry(v, x) \in Entry
  BY <1>2, <1>3 DEF CachedEntry, Entry, KeyOf, Key, Request, Result
<1>5. es \in SUBSET Entry
  BY <1>1, <1>4 DEF SharedTypes
<1>6. disk' \in SUBSET Entry /\ cache' \in [Views -> SUBSET Entry]
  <2>1. Store(v, es)
    BY DEF Reload
  <2> HIDE DEF es
  <2> QED
    BY <1>1, <1>5, <2>1, StoreTypes
<1>7. SharedTypes' /\ ViewTypes'
  BY <1>1, <1>6 DEF SharedTypes, ViewTypes, Reload, ledgerVars, viewVars
<1>8. TaskTypes'
  BY <1>1, <1>3 DEF TaskTypes, TasksOK, Reload, Goto, PCs
<1> QED
  BY <1>7, <1>8, TypedPartsNext

\* The end of a task, and the end of the process.
LEMMA EndTypes ==
  ASSUME Typed, NEW v \in Views,
         Skip(v) \/ Deliver(v) \/ DeliverError(v) \/ Suppress(v) \/ Restart(v)
  PROVE  Typed'
<1>1. SharedTypes /\ ViewTypes /\ TaskTypes
  BY TypedParts
<1>2. FinishTask(v)
  BY DEF Skip, Deliver, DeliverError, Suppress, Restart
<1>3. TaskTypes'
  BY <1>1, <1>2, FinishTypes
<1>4. SharedTypes'
  BY <1>1, MaxMovesAssumption
     DEF SharedTypes, Skip, Deliver, DeliverError, Suppress, Restart, ledgerVars, cacheVars
<1>5. ViewTypes'
  <2>1. CASE Skip(v) \/ Suppress(v) \/ Restart(v)
    BY <1>1, <2>1 DEF ViewTypes, Skip, Suppress, Restart, viewVars
  <2>2. CASE Deliver(v)
    <3>1. request[v] \in Request /\ result[v] \in Result
      BY <1>1, <2>2 DEF TaskTypes, TasksOK, Deliver
    <3>2. Shown(request[v], result[v].items) \in SUBSET (Scopes \X Nat)
      BY <3>1 DEF Shown, Request, Result
    <3>3. items' \in [Views -> SUBSET (Scopes \X Nat)]
      BY <1>1, <2>2, <3>2 DEF ViewTypes, Deliver
    <3>4. next' \in [Views -> Cursor \cup {None}]
      BY <1>1, <2>2, <3>1 DEF ViewTypes, Deliver, Result
    <3> QED
      BY <1>1, <2>2, <3>1, <3>3, <3>4 DEF ViewTypes, Deliver
  <2>3. CASE DeliverError(v)
    <3>1. request[v] \in Request
      BY <1>1, <2>3 DEF TaskTypes, TasksOK, DeliverError
    <3>2. [cursor |-> request[v].cursor, append |-> request[v].append,
           force |-> request[v].force] \in Retry
      BY <3>1 DEF Request, Retry
    <3> QED
      BY <1>1, <2>3, <3>2 DEF ViewTypes, DeliverError
  <2> QED
    BY <2>1, <2>2, <2>3
<1> QED
  BY <1>3, <1>4, <1>5, TypedPartsNext

\* Everything else that happens.
LEMMA EnvironmentTypes ==
  ASSUME Typed, NewEvent \/ Age \/ (\E v \in Views : Expire(v))
  PROVE  Typed'
<1>1. SharedTypes /\ ViewTypes /\ TaskTypes
  BY TypedParts
<1>2. ViewTypes' /\ TaskTypes'
  BY <1>1 DEF ViewTypes, TaskTypes, TasksOK, NewEvent, Age, Expire, viewVars, taskVars
<1>3. SharedTypes'
  <2>1. CASE NewEvent
    BY <1>1, <2>1 DEF SharedTypes, NewEvent, ledgerVars, cacheVars
  <2>2. CASE Age
    <3>1. PICK s \in Scopes : checkpoint[s] # None /\ checkpoint' = [checkpoint EXCEPT ![s].old = TRUE]
      BY <2>2, Zenon DEF Age
    <3>2. [checkpoint[s] EXCEPT !.old = TRUE] \in Checkpoint
      BY <1>1, <3>1 DEF SharedTypes, Checkpoint
    <3> QED
      BY <1>1, <2>2, <3>1, <3>2 DEF SharedTypes, Age, cacheVars
  <2>3. ASSUME NEW v \in Views, Expire(v) PROVE SharedTypes'
    <3>1. PICK e \in cache[v] : Store(v, cache[v] \ {e})
      BY <2>3 DEF Expire
    <3>2. cache[v] \ {e} \in SUBSET Entry
      BY <1>1 DEF SharedTypes
    <3>3. disk' \in SUBSET Entry /\ cache' \in [Views -> SUBSET Entry]
      BY <1>1, <3>1, <3>2, StoreTypes
    <3> QED
      BY <1>1, <2>3, <3>3 DEF SharedTypes, Expire, ledgerVars
  <2> QED
    BY <2>1, <2>2, <2>3
<1> QED
  BY <1>2, <1>3, TypedPartsNext

LEMMA InitTyped == Init => Typed
<1> SUFFICES ASSUME Init PROVE Typed
  OBVIOUS
<1>1. head \in [Scopes -> Nat]
  <2>1. Heads \subseteq Nat
    BY MaxEventsAssumption DEF Heads
  <2> QED
    BY <2>1 DEF Init
<1>2. chain \in [Scopes -> Chain]
  BY DEF Init, Chain
<1>3. SharedTypes
  BY <1>1, <1>2, MaxMovesAssumption DEF Init, SharedTypes
<1>4. ViewTypes /\ TaskTypes
  BY DEF Init, ViewTypes, TaskTypes, TasksOK, PCs
<1> QED
  BY <1>3, <1>4, TypedParts

LEMMA NextTyped == Typed /\ [Next]_vars => Typed'
<1> SUFFICES ASSUME Typed, [Next]_vars PROVE Typed'
  OBVIOUS
<1>1. CASE UNCHANGED vars
  BY <1>1 DEF Typed, TypeOK, TasksOK, vars, ledgerVars, cacheVars, viewVars, taskVars
<1>2. ASSUME NEW v \in Views, User(v) PROVE Typed'
  BY <1>2, UserTypes
<1>3. ASSUME NEW v \in Views, Task(v) PROVE Typed'
  BY <1>3, ReadTypes, PersistTypes, ReloadTypes, EndTypes DEF Task
<1>4. ASSUME NEW v \in Views, Expire(v) PROVE Typed'
  BY <1>4, EnvironmentTypes
<1>5. ASSUME NEW v \in Views, Restart(v) PROVE Typed'
  BY <1>5, EndTypes
<1>6. CASE NewEvent \/ Age
  BY <1>6, EnvironmentTypes
<1> QED
  BY <1>1, <1>2, <1>3, <1>4, <1>5, <1>6 DEF Next

LEMMA AlwaysTyped == Spec => []Typed
BY InitTyped, NextTyped, PTL DEF Spec

(* Every table, cache and view keeps its type, and cursors never point     *)
(* before the oldest event.                                                *)
THEOREM TypeCorrect == Spec => []TypeOK
<1>1. Typed => TypeOK
  BY DEF Typed
<1> QED
  BY <1>1, AlwaysTyped, PTL

-----------------------------------------------------------------------------
(* What is shown is stored.                                                *)

Durable ==
  /\ \A e \in disk : e.items \subseteq events[e.key.scope]
  /\ \A v \in Views : \A e \in cache[v] : e.items \subseteq events[e.key.scope]
  /\ \A v \in Views : pc[v] = "deliver" => result[v].items \subseteq events[request[v].scope]
  /\ ShownIsDurable

\* No step takes an event from the ledger or from the chain.
LEMMA LedgerGrows ==
  ASSUME Typed, [Next]_vars
  PROVE  \A s \in Scopes : events[s] \subseteq events'[s] /\ head[s] <= head'[s]
<1>1. head \in [Scopes -> Nat] /\ events \in [Scopes -> SUBSET Nat]
  BY DEF Typed, TypeOK
<1>2. ASSUME NEW v \in Views, PersistPage(v)
      PROVE  \A s \in Scopes : events[s] \subseteq events'[s] /\ head[s] <= head'[s]
  BY <1>1, <1>2 DEF PersistPage, StoredEvents
<1>3. CASE NewEvent
  BY <1>1, <1>3 DEF NewEvent, ledgerVars
<1>4. ASSUME UNCHANGED <<head, events>>
      PROVE  \A s \in Scopes : events[s] \subseteq events'[s] /\ head[s] <= head'[s]
  BY <1>1, <1>4
<1>5. CASE UNCHANGED vars
  BY <1>4, <1>5 DEF vars, ledgerVars
<1>6. CASE Age
  BY <1>4, <1>6 DEF Age
<1>7. ASSUME NEW v \in Views, User(v) \/ Expire(v) \/ Restart(v)
      PROVE  UNCHANGED <<head, events>>
  BY <1>7 DEF User, ChangeInputs, StartOver, NextPage, RetryLast, LoadPage, Cancel, ClearCache,
              Expire, Restart, ledgerVars
<1>8. ASSUME NEW v \in Views, Task(v), ~PersistPage(v)
      PROVE  UNCHANGED <<head, events>>
  BY <1>8 DEF Task, Skip, CachedPage, ReadCheckpoint, AskProvider, ReadPage, Fetch, Reload, Fail,
              Deliver, DeliverError, Suppress, ledgerVars
<1> QED
  BY <1>2, <1>3, <1>4, <1>5, <1>6, <1>7, <1>8 DEF Next

\* Durable survives a step that shows, caches and loads nothing new.
LEMMA DurableFrame ==
  ASSUME Typed, Typed', Durable, \A s \in Scopes : events[s] \subseteq events'[s],
         disk' \subseteq disk \cup UNION {cache[w] : w \in Views},
         \A w \in Views : cache'[w] \subseteq cache[w] \cup disk,
         \A w \in Views : pc'[w] = "deliver" =>
           pc[w] = "deliver" /\ result'[w] = result[w] /\ request'[w] = request[w],
         \A w \in Views : items'[w] \subseteq items[w]
  PROVE  Durable'
<1>1. \A e \in Entry : e.key.scope \in Scopes
  BY DEF Entry, Key
<1>2. disk \subseteq Entry /\ \A w \in Views : cache[w] \subseteq Entry
  BY DEF Typed, TypeOK
<1>3. \A e \in disk' : e.items \subseteq events'[e.key.scope]
  BY <1>1, <1>2 DEF Durable
<1>4. \A w \in Views : \A e \in cache'[w] : e.items \subseteq events'[e.key.scope]
  BY <1>1, <1>2 DEF Durable
<1>5. \A w \in Views : pc'[w] = "deliver" => result'[w].items \subseteq events'[request'[w].scope]
  <2>1. \A w \in Views : pc[w] = "deliver" => request[w].scope \in Scopes
    BY DEF Typed, TypeOK, TasksOK, Request
  <2> QED
    BY <2>1 DEF Durable
<1>6. ShownIsDurable'
  <2>1. \A w \in Views : items[w] \subseteq Scopes \X Nat
    BY DEF Typed, TypeOK
  <2>2. \A w \in Views : \A i \in items'[w] : i[2] \in events'[i[1]]
    BY <2>1 DEF Durable, ShownIsDurable
  <2> QED
    BY <2>2 DEF ShownIsDurable
<1> QED
  BY <1>3, <1>4, <1>5, <1>6 DEF Durable

LEMMA NextDurable == Typed /\ Typed' /\ Durable /\ [Next]_vars => Durable'
<1> SUFFICES ASSUME Typed, Typed', Durable, [Next]_vars PROVE Durable'
  OBVIOUS
<1>1. \A s \in Scopes : events[s] \subseteq events'[s]
  BY LedgerGrows
<1>2. /\ pc \in [Views -> PCs] /\ cache \in [Views -> SUBSET Entry]
      /\ items \in [Views -> SUBSET (Scopes \X Nat)]
      /\ request \in [Views -> Request \cup {None}] /\ result \in [Views -> Result \cup {None}]
  BY DEF Typed, TypeOK, PCs
<1>3. CASE UNCHANGED vars \/ NewEvent \/ Age
  BY <1>1, <1>2, <1>3, DurableFrame DEF vars, NewEvent, Age, cacheVars, viewVars, taskVars
<1>4. ASSUME NEW v \in Views, User(v) PROVE Durable'
  <2>1. CASE ClearCache(v)
    BY <1>1, <1>2, <2>1, DurableFrame DEF ClearCache, Store, viewVars, taskVars
  <2>2. CASE ChangeInputs(v) \/ Cancel(v)
    BY <1>1, <1>2, <2>2, DurableFrame DEF ChangeInputs, Cancel, cacheVars, viewVars, taskVars
  <2>3. CASE NextPage(v) \/ RetryLast(v)
    BY <1>1, <1>2, <2>3, DurableFrame DEF NextPage, RetryLast, LoadPage, Goto, cacheVars, viewVars
  <2>4. ASSUME NEW force \in BOOLEAN, StartOver(v, force) PROVE Durable'
    BY <1>1, <1>2, <2>4, DurableFrame DEF StartOver, LoadPage, Goto, cacheVars
  <2> QED
    BY <1>4, <2>1, <2>2, <2>3, <2>4 DEF User
<1>5. ASSUME NEW v \in Views, Expire(v) PROVE Durable'
  <2>1. /\ cache' \in [Views -> SUBSET Entry] /\ \A w \in Views : cache'[w] \subseteq cache[w]
        /\ disk' \subseteq cache[v] /\ UNCHANGED <<viewVars, taskVars>>
    BY <1>2, <1>5 DEF Expire, Store
  <2> QED
    BY <1>1, <1>2, <2>1, DurableFrame DEF viewVars, taskVars
<1>6. ASSUME NEW v \in Views, Restart(v) PROVE Durable'
  BY <1>1, <1>2, <1>6, DurableFrame DEF Restart, FinishTask, Goto
<1>7. ASSUME NEW v \in Views, Task(v) PROVE Durable'
  <2>1. CASE CachedPage(v)
    <3>1. PICK e \in Hits(v, KeyOf(request[v])) : result' = [result EXCEPT ![v] =
            [items |-> e.items, next |-> e.next, completeness |-> "complete", cached |-> TRUE,
             upTo |-> 0]]
      BY <2>1, Zenon DEF CachedPage
    <3>2. e \in cache[v] /\ e.key.scope = request[v].scope
      BY <3>1 DEF Hits, KeyOf
    <3>3. result'[v].items \subseteq events[request[v].scope]
      BY <1>2, <3>1, <3>2 DEF Durable
    <3>4. UNCHANGED <<events, cacheVars, viewVars, request>> /\ pc' = [pc EXCEPT ![v] = "deliver"]
          /\ \A w \in Views \ {v} : result'[w] = result[w]
      BY <1>2, <2>1, <3>1 DEF CachedPage, Goto, ledgerVars
    <3> QED
      BY <1>2, <3>3, <3>4 DEF Durable, ShownIsDurable, cacheVars, viewVars
  <2>2. CASE ReadPage(v)
    <3>1. result'[v].items = events[request[v].scope]
      BY <1>2, <2>2 DEF ReadPage, LoadedPage, Typed, TypeOK, TasksOK, Result
    <3>2. UNCHANGED <<events, cacheVars, viewVars, request>> /\ pc' = [pc EXCEPT ![v] = "deliver"]
          /\ \A w \in Views \ {v} : result'[w] = result[w]
      BY <1>2, <2>2 DEF ReadPage, Goto, ledgerVars
    <3> QED
      BY <1>2, <3>1, <3>2 DEF Durable, ShownIsDurable, cacheVars, viewVars
  <2>3. CASE Reload(v)
    <3> DEFINE x == LoadedPage(v, request[v].scope)
               c == CachedEntry(v, x)
    <3>1. x.items = events[request[v].scope]
      BY <2>3 DEF Reload, LoadedPage, Typed, TypeOK, TasksOK, Result
    <3>2. c.items = x.items /\ c.key.scope = request[v].scope
      BY DEF CachedEntry, KeyOf
    <3>3. /\ disk' \subseteq cache[v] \cup {c}
          /\ \A w \in Views : cache'[w] \subseteq cache[w] \cup {c}
          /\ UNCHANGED <<events, viewVars, request>> /\ pc' = [pc EXCEPT ![v] = "deliver"]
          /\ result' = [result EXCEPT ![v] = x]
      BY <1>2, <2>3 DEF Reload, Store, Goto, ledgerVars
    <3> HIDE DEF x, c
    <3> QED
      BY <1>2, <3>1, <3>2, <3>3 DEF Durable, ShownIsDurable, viewVars
  <2>4. CASE Deliver(v)
    <3>1. request[v] \in Request /\ result[v].items \subseteq events[request[v].scope]
      BY <1>2, <2>4 DEF Deliver, Durable, Typed, TasksOK
    <3>2. \A i \in Shown(request[v], result[v].items) : i[2] \in events[i[1]]
      BY <3>1 DEF Shown
    <3>3. \A w \in Views : items'[w] \subseteq items[w] \cup
            (IF w = v THEN Shown(request[v], result[v].items) ELSE {})
      BY <1>2, <2>4 DEF Deliver
    <3>4. UNCHANGED <<events, cacheVars>> /\ pc' = [pc EXCEPT ![v] = "idle"]
          /\ \A w \in Views \ {v} : result'[w] = result[w] /\ request'[w] = request[w]
      BY <1>2, <2>4 DEF Deliver, FinishTask, Goto, ledgerVars
    <3> QED
      BY <1>2, <3>2, <3>3, <3>4 DEF Durable, ShownIsDurable, cacheVars
  <2>5. CASE PersistPage(v)
    BY <1>1, <1>2, <2>5, DurableFrame DEF PersistPage, Goto, cacheVars, viewVars
  <2>6. CASE ReadCheckpoint(v) \/ AskProvider(v) \/ Fetch(v) \/ Fail(v)
    BY <1>1, <1>2, <2>6, DurableFrame DEF ReadCheckpoint, AskProvider, Fetch, Fail, Goto, cacheVars, viewVars
  <2>7. CASE Skip(v) \/ DeliverError(v) \/ Suppress(v)
    BY <1>1, <1>2, <2>7, DurableFrame DEF Skip, DeliverError, Suppress, FinishTask, Goto, cacheVars, viewVars
  <2> QED
    BY <1>7, <2>1, <2>2, <2>3, <2>4, <2>5, <2>6, <2>7 DEF Task
<1> QED
  BY <1>3, <1>4, <1>5, <1>6, <1>7 DEF Next

(* What a view shows was stored first and stays stored, across cache files *)
(* shared by processes, restarts, retries and cancelled loads.             *)
THEOREM ShownStaysStored == Spec => []ShownIsDurable
<1>1. Init => Durable
  BY DEF Init, Durable, ShownIsDurable
<1>2. Durable => ShownIsDurable
  BY DEF Durable
<1> QED
  BY <1>1, <1>2, NextDurable, AlwaysTyped, PTL DEF Spec

-----------------------------------------------------------------------------
(* Pages stored in order leave no gap.  The strengthening says how far the *)
(* stored pages of a scope reach: down to the event its checkpoint's cursor*)
(* stands for, which for a page number depends on the number of events its *)
(* scope had when the page was fetched.                                    *)

\* Every event of scope s the first page counted, down to low, is stored.
Reaches(s, low) == \A e \in Nat \ {0} : low < e /\ e <= chain[s].first => e \in events[s]

ChainOK ==
  \A s \in Scopes : chain[s].inOrder =>
    /\ checkpoint[s] # None
    /\ \E h \in Nat : h <= head[s] /\ Reaches(s, Low(checkpoint[s].next, h))

CompleteOK ==
  \A s \in Scopes : checkpoint[s] # None /\ checkpoint[s].complete => checkpoint[s].next = None

\* The page of v continues by page number what the checkpoint ends with.
Follows(v) ==
  LET s == request[v].scope  c == request[v].cursor IN
  /\ c # None /\ c.owner \in PageNumbered /\ ~page[v].overtaken
  /\ checkpoint[s] # None /\ chain[s].inOrder /\ checkpoint[s].next = c

PageOK(v) ==
  LET r == request[v]  pg == page[v] IN
  /\ pg.asOf <= head[r.scope]
  /\ \A e \in Nat \ {0} : Low(pg.next, pg.asOf) < e /\ e <= High(r, pg.asOf) => e \in pg.items
  /\ Follows(v) => Reaches(r.scope, Low(r.cursor, pg.asOf))

PagesOK == \A v \in Views : pc[v] = "persist" => PageOK(v)

ChainInv == ChainOK /\ CompleteOK /\ PagesOK

\* ChainInv survives a step that neither fetches nor stores a page.
LEMMA ChainFrame ==
  ASSUME Typed, Typed', ChainInv, [Next]_vars, UNCHANGED <<events, chain>>,
         \A s \in Scopes : /\ checkpoint'[s] = None <=> checkpoint[s] = None
                           /\ checkpoint[s] # None =>
                                /\ checkpoint'[s].next = checkpoint[s].next
                                /\ checkpoint'[s].complete = checkpoint[s].complete,
         \A w \in Views : pc'[w] = "persist" =>
           pc[w] = "persist" /\ page'[w] = page[w] /\ request'[w] = request[w]
  PROVE  ChainInv'
<1>1. \A s \in Scopes : head[s] <= head'[s] /\ head[s] \in Nat /\ head'[s] \in Nat
  BY LedgerGrows DEF Typed, TypeOK
<1>3. ChainOK'
  <2> SUFFICES ASSUME NEW s \in Scopes, chain[s].inOrder
               PROVE  /\ checkpoint'[s] # None
                      /\ \E h \in Nat : h <= head'[s] /\ Reaches(s, Low(checkpoint'[s].next, h))
    BY DEF ChainOK, Low, Reaches
  <2>1. PICK h \in Nat : h <= head[s] /\ Reaches(s, Low(checkpoint[s].next, h))
    BY DEF ChainInv, ChainOK
  <2>2. checkpoint[s] # None /\ checkpoint'[s].next = checkpoint[s].next /\ checkpoint'[s] # None
    BY DEF ChainInv, ChainOK
  <2>3. h <= head'[s]
    BY <1>1, <2>1
  <2> QED
    BY <2>1, <2>2, <2>3
<1>4. CompleteOK'
  BY DEF ChainInv, CompleteOK
<1>5. PagesOK'
  <2> SUFFICES ASSUME NEW w \in Views, pc'[w] = "persist" PROVE PageOK(w)'
    BY DEF PagesOK
  <2>1. PageOK(w) /\ page'[w] = page[w] /\ request'[w] = request[w]
    BY DEF ChainInv, PagesOK
  <2>2. request[w] \in Request /\ page[w] \in Page /\ request[w].scope \in Scopes
    BY DEF Typed, TypeOK, TasksOK, Request, ChainInv
  <2>3. Follows(w)' => Follows(w)
    BY <2>1, <2>2 DEF Follows
  <2> QED
    BY <1>1, <2>1, <2>2, <2>3 DEF PageOK, Reaches, Page, Low, High
<1> QED
  BY <1>3, <1>4, <1>5 DEF ChainInv

\* A step of one task that reaches another step than persist.
LEMMA TaskFrame ==
  ASSUME Typed, Typed', ChainInv, [Next]_vars, UNCHANGED <<events, chain, checkpoint>>,
         NEW v \in Views, pc'[v] # "persist",
         \A w \in Views \ {v} : pc'[w] = pc[w] /\ page'[w] = page[w] /\ request'[w] = request[w]
  PROVE  ChainInv'
BY ChainFrame

LEMMA FetchChain ==
  ASSUME Typed, Typed', ChainInv, NEW v \in Views, Fetch(v)
  PROVE  ChainInv'
<1> DEFINE r == request[v]
           s == r.scope
<1>1. r \in Request /\ s \in Scopes /\ head \in [Scopes -> Nat]
  BY DEF Fetch, Typed, TypeOK, TasksOK, Request
<1>2. PICK p \in Answering(r) : page' = [page EXCEPT ![v] = Listed(p, r)]
  BY DEF Fetch
<1>3. p \in Providers
  BY <1>1, <1>2 DEF Answering, Request, Cursor
<1> DEFINE pg == Listed(p, r)
<1>4. /\ pg \in Page /\ pg.asOf = head[s] /\ ~pg.overtaken
      /\ \A e \in Nat \ {0} : Low(pg.next, pg.asOf) < e /\ e <= High(r, pg.asOf) => e \in pg.items
  BY <1>1, <1>2, <1>3, ListedPage
<1>5. /\ UNCHANGED <<head, events, checkpoint, chain, request>>
      /\ pc' = [pc EXCEPT ![v] = "persist"]
      /\ pc \in [Views -> PCs] /\ page'[v] = pg /\ \A w \in Views \ {v} : page'[w] = page[w]
  BY <1>2 DEF Fetch, Goto, ledgerVars, Typed, TypeOK, PCs
<1> HIDE DEF pg
<1>6. ChainOK' /\ CompleteOK'
  BY <1>5 DEF ChainInv, ChainOK, CompleteOK, Reaches, Low
<1>7. Follows(v)' => Reaches(s, Low(r.cursor, head[s]))
  <2> SUFFICES ASSUME r.cursor # None, r.cursor.owner \in PageNumbered, checkpoint[s] # None,
                      chain[s].inOrder, checkpoint[s].next = r.cursor
               PROVE  Reaches(s, Low(r.cursor, head[s]))
    BY <1>5 DEF Follows
  <2>1. PICK h \in Nat : h <= head[s] /\ Reaches(s, Low(r.cursor, h))
    BY <1>1 DEF ChainInv, ChainOK
  <2>2. r.cursor.at \in Nat /\ Low(r.cursor, h) = h - r.cursor.at
        /\ Low(r.cursor, head[s]) = head[s] - r.cursor.at
    BY <1>1 DEF Low, Request, Cursor
  <2>3. head[s] \in Nat
    BY <1>1
  <2> QED
    BY <2>1, <2>2, <2>3 DEF Reaches
<1>8. PageOK(v)'
  BY <1>1, <1>4, <1>5, <1>7 DEF PageOK, Reaches, Low, High
<1>9. \A w \in Views \ {v} : pc'[w] = "persist" => PageOK(w)'
  BY <1>5 DEF ChainInv, PagesOK, PageOK, Follows, Reaches, Low, High
<1> QED
  BY <1>6, <1>8, <1>9 DEF ChainInv, PagesOK

LEMMA PersistChain ==
  ASSUME Typed, Typed', ChainInv, NEW v \in Views, PersistPage(v)
  PROVE  ChainInv'
<1> DEFINE r == request[v]
           s == r.scope
           pg == page[v]
<1>1. r \in Request /\ pg \in Page /\ s \in Scopes /\ PageOK(v)
  BY DEF PersistPage, Typed, TypeOK, TasksOK, Request, ChainInv, PagesOK
<1>2. /\ events' = [events EXCEPT ![s] = @ \cup pg.items]
      /\ checkpoint' = [checkpoint EXCEPT ![s] =
           [next |-> pg.next, complete |-> pg.next = None, old |-> FALSE]]
      /\ chain' = [chain EXCEPT ![s] = Chained(r, pg)]
      /\ page' = Overtaken(v, s) /\ pc' = [pc EXCEPT ![v] = "reload"]
      /\ UNCHANGED <<head, request>>
  BY DEF PersistPage, Goto, StoredEvents
<1>3. /\ events \in [Scopes -> SUBSET Nat] /\ checkpoint \in [Scopes -> Checkpoint \cup {None}]
      /\ chain \in [Scopes -> Chain] /\ pc \in [Views -> PCs] /\ head \in [Scopes -> Nat]
      /\ page \in [Views -> Page \cup {None}] /\ request \in [Views -> Request \cup {None}]
  BY DEF Typed, TypeOK, PCs
<1>4. /\ events'[s] = events[s] \cup pg.items /\ chain'[s] = Chained(r, pg)
      /\ checkpoint'[s] = [next |-> pg.next, complete |-> pg.next = None, old |-> FALSE]
      /\ \A u \in Scopes \ {s} : /\ events'[u] = events[u] /\ chain'[u] = chain[u]
                                 /\ checkpoint'[u] = checkpoint[u]
  BY <1>1, <1>2, <1>3
<1>5. /\ checkpoint'[s] # None /\ checkpoint'[s].next = pg.next
      /\ checkpoint'[s].complete => pg.next = None
  <2> DEFINE row == [next |-> pg.next, complete |-> pg.next = None, old |-> FALSE]
  <2>1. row \in Checkpoint /\ row.next = pg.next /\ (row.complete => pg.next = None)
    BY <1>1 DEF Checkpoint, Page
  <2>2. row # None
    BY <2>1, NoneIsNoRecord
  <2>3. checkpoint'[s] = row
    BY <1>4
  <2> HIDE DEF row
  <2> QED
    BY <2>1, <2>2, <2>3
<1>6. pg.asOf \in Nat /\ pg.asOf <= head[s] /\ chain[s].first \in Nat
  BY <1>1, <1>3 DEF PageOK, Page, Chain
<1>7. chain'[s].inOrder => \A e \in Nat \ {0} :
        Low(pg.next, pg.asOf) < e /\ e <= chain'[s].first => e \in events'[s]
  <2> SUFFICES ASSUME Chained(r, pg).inOrder, NEW e \in Nat \ {0},
                      Low(pg.next, pg.asOf) < e, e <= Chained(r, pg).first
               PROVE  e \in events[s] \cup pg.items
    BY <1>4
  <2>1. e <= High(r, pg.asOf) => e \in pg.items
    BY <1>1 DEF PageOK
  <2>2. CASE r.cursor = None
    BY <2>1, <2>2 DEF Chained, High
  <2>3. CASE r.cursor # None
    <3>1. /\ checkpoint[s] # None
          /\ chain[s].inOrder /\ checkpoint[s].next = r.cursor
          /\ r.cursor.owner \in PageNumbered => ~pg.overtaken
          /\ Chained(r, pg).first = chain[s].first
      BY <1>1, <1>3, <2>3 DEF Chained, Chain
    <3>2. High(r, pg.asOf) = Low(r.cursor, pg.asOf) /\ r.cursor.at \in Nat
      BY <1>1, <2>3 DEF High, Request, Cursor
    <3>3. CASE r.cursor.owner \in PageNumbered
      <4>1. Reaches(s, Low(r.cursor, pg.asOf))
        BY <1>1, <2>3, <3>1, <3>3 DEF PageOK, Follows
      <4> QED
        BY <1>6, <2>1, <3>1, <3>2, <3>3, <4>1 DEF Reaches, Low
    <3>4. CASE r.cursor.owner \notin PageNumbered
      <4>1. PICK h \in Nat : Reaches(s, Low(r.cursor, h))
        BY <1>1, <3>1 DEF ChainInv, ChainOK
      <4>2. Low(r.cursor, h) = r.cursor.at /\ Low(r.cursor, pg.asOf) = r.cursor.at
        BY <2>3, <3>4 DEF Low
      <4> QED
        BY <2>1, <3>1, <3>2, <4>1, <4>2 DEF Reaches
    <3> QED
      BY <3>3, <3>4
  <2> QED
    BY <2>2, <2>3
<1>8. ChainOK'
  <2> SUFFICES ASSUME NEW u \in Scopes, chain'[u].inOrder
               PROVE  /\ checkpoint'[u] # None
                      /\ \E h \in Nat : h <= head'[u] /\ \A e \in Nat \ {0} :
                           Low(checkpoint'[u].next, h) < e /\ e <= chain'[u].first => e \in events'[u]
    BY DEF ChainOK, Reaches, Low
  <2>1. CASE u = s
    BY <1>2, <1>5, <1>6, <1>7, <2>1
  <2>2. CASE u # s
    BY <1>2, <1>4, <2>2 DEF ChainInv, ChainOK, Reaches
  <2> QED
    BY <2>1, <2>2
<1>9. CompleteOK'
  BY <1>4, <1>5 DEF ChainInv, CompleteOK
<1>10. PagesOK'
  <2> SUFFICES ASSUME NEW w \in Views, pc'[w] = "persist" PROVE PageOK(w)'
    BY DEF PagesOK
  <2>1. w # v /\ pc[w] = "persist" /\ PageOK(w) /\ request'[w] = request[w] /\ request[w] \in Request
        /\ page[w] \in Page
    BY <1>2, <1>3 DEF ChainInv, PagesOK, Typed, TasksOK
  <2>2. request[w].scope \in Scopes
    BY <2>1 DEF Request
  <2>3. CASE request[w].scope = s
    <3>1. page'[w] = [page[w] EXCEPT !.overtaken = TRUE]
      BY <1>2, <2>1, <2>3, NoneIsNoRecord DEF Overtaken
    <3>2. /\ page'[w].overtaken /\ page'[w].asOf = page[w].asOf
          /\ page'[w].next = page[w].next /\ page'[w].items = page[w].items
      BY <2>1, <3>1 DEF Page
    <3>3. ~Follows(w)'
      BY <3>2 DEF Follows
    <3> QED
      BY <1>2, <2>1, <3>2, <3>3 DEF PageOK, Low, High
  <2>4. CASE request[w].scope # s
    <3>1. page'[w] = page[w]
      BY <1>2, <2>1, <2>4 DEF Overtaken
    <3>2. Follows(w)' => Follows(w)
      BY <1>4, <2>1, <2>2, <2>4, <3>1 DEF Follows
    <3> QED
      BY <1>2, <1>4, <2>1, <2>2, <2>4, <3>1, <3>2 DEF PageOK, Reaches, Low, High
  <2> QED
    BY <2>3, <2>4
<1> QED
  BY <1>8, <1>9, <1>10 DEF ChainInv

LEMMA NextChain == Typed /\ Typed' /\ ChainInv /\ [Next]_vars => ChainInv'
<1> SUFFICES ASSUME Typed, Typed', ChainInv, [Next]_vars PROVE ChainInv'
  OBVIOUS
<1>1. pc \in [Views -> PCs] /\ checkpoint \in [Scopes -> Checkpoint \cup {None}]
  BY DEF Typed, TypeOK, PCs
<1>2. CASE UNCHANGED vars \/ NewEvent
  BY <1>1, <1>2, ChainFrame DEF vars, NewEvent, ledgerVars, taskVars
<1>3. CASE Age
  <2>1. PICK s \in Scopes : checkpoint[s] # None /\ checkpoint' = [checkpoint EXCEPT ![s].old = TRUE]
    BY <1>3, Zenon DEF Age
  <2> DEFINE row == [checkpoint[s] EXCEPT !.old = TRUE]
  <2>2. row \in Checkpoint /\ row.next = checkpoint[s].next /\ row.complete = checkpoint[s].complete
    BY <1>1, <2>1 DEF Checkpoint
  <2>3. row # None /\ checkpoint' = [checkpoint EXCEPT ![s] = row]
    BY <2>1, <2>2, NoneIsNoRecord
  <2> HIDE DEF row
  <2>4. \A t \in Scopes : /\ checkpoint'[t] = None <=> checkpoint[t] = None
                          /\ checkpoint[t] # None =>
                               /\ checkpoint'[t].next = checkpoint[t].next
                               /\ checkpoint'[t].complete = checkpoint[t].complete
    BY <1>1, <2>1, <2>2, <2>3
  <2>5. UNCHANGED <<events, chain, pc, page, request>>
    BY <1>3 DEF Age, taskVars
  <2> QED
    BY <2>4, <2>5, ChainFrame
<1>4. ASSUME NEW v \in Views, User(v) PROVE ChainInv'
  <2>1. UNCHANGED <<events, chain, checkpoint>>
    BY <1>4 DEF User, ChangeInputs, StartOver, NextPage, RetryLast, LoadPage, Cancel, ClearCache, ledgerVars
  <2>2. CASE ChangeInputs(v) \/ Cancel(v) \/ ClearCache(v)
    <3>1. UNCHANGED <<pc, page, request>>
      BY <2>2 DEF ChangeInputs, Cancel, ClearCache, taskVars
    <3> QED
      BY <2>1, <3>1, ChainFrame
  <2>3. ASSUME NEW c, NEW append, NEW force, LoadPage(v, c, append, force)
        PROVE  ChainInv'
    BY <1>1, <2>1, <2>3, TaskFrame DEF LoadPage, Goto, Typed, TypeOK
  <2>4. ASSUME NEW force, StartOver(v, force) PROVE ChainInv'
    BY <2>3, <2>4 DEF StartOver
  <2>5. CASE NextPage(v) \/ RetryLast(v)
    BY <2>3, <2>5 DEF NextPage, RetryLast
  <2> QED
    BY <1>4, <2>2, <2>4, <2>5 DEF User
<1>5. ASSUME NEW v \in Views, Expire(v) \/ Restart(v) PROVE ChainInv'
  <2>1. UNCHANGED <<events, chain, checkpoint>>
    BY <1>5 DEF Expire, Restart, ledgerVars
  <2>2. CASE Expire(v)
    <3>1. UNCHANGED <<pc, page, request>>
      BY <2>2 DEF Expire, taskVars
    <3> QED
      BY <2>1, <3>1, ChainFrame
  <2>3. CASE Restart(v)
    <3>1. /\ pc'[v] = "idle"
          /\ \A w \in Views \ {v} : pc'[w] = pc[w] /\ page'[w] = page[w] /\ request'[w] = request[w]
      BY <1>1, <2>3 DEF Restart, FinishTask, Goto, Typed, TypeOK
    <3> QED
      BY <2>1, <3>1, TaskFrame
  <2> QED
    BY <1>5, <2>2, <2>3
<1>6. ASSUME NEW v \in Views, Task(v) PROVE ChainInv'
  <2>1. CASE Fetch(v)
    BY <2>1, FetchChain
  <2>2. CASE PersistPage(v)
    BY <2>2, PersistChain
  <2>3. CASE Skip(v) \/ Deliver(v) \/ DeliverError(v) \/ Suppress(v)
    <3>1. FinishTask(v) /\ UNCHANGED <<events, chain, checkpoint>>
      BY <2>3 DEF Skip, Deliver, DeliverError, Suppress, ledgerVars
    <3>2. /\ pc'[v] = "idle"
          /\ \A w \in Views \ {v} : pc'[w] = pc[w] /\ page'[w] = page[w] /\ request'[w] = request[w]
      BY <1>1, <3>1 DEF FinishTask, Goto, Typed, TypeOK
    <3> QED
      BY <3>1, <3>2, TaskFrame
  <2>4. CASE CachedPage(v) \/ ReadCheckpoint(v) \/ AskProvider(v) \/ ReadPage(v) \/ Reload(v) \/ Fail(v)
    <3>1. UNCHANGED <<events, chain, checkpoint>>
      BY <2>4 DEF CachedPage, ReadCheckpoint, AskProvider, ReadPage, Reload, Fail, ledgerVars
    <3>2. /\ pc'[v] # "persist"
          /\ \A w \in Views \ {v} : pc'[w] = pc[w] /\ page'[w] = page[w] /\ request'[w] = request[w]
      BY <1>1, <2>4 DEF CachedPage, ReadCheckpoint, AskProvider, ReadPage, Reload, Fail, Goto, Typed, TypeOK
    <3> QED
      BY <3>1, <3>2, TaskFrame
  <2> QED
    BY <1>6, <2>1, <2>2, <2>3, <2>4 DEF Task
<1> QED
  BY <1>2, <1>3, <1>4, <1>5, <1>6 DEF Next

LEMMA InitChain == Init => ChainInv
BY DEF Init, ChainInv, ChainOK, CompleteOK, PagesOK

LEMMA ChainInOrder == Typed /\ ChainInv => InOrderIsWhole
<1> SUFFICES ASSUME Typed, ChainInv, NEW s \in Scopes, checkpoint[s] # None,
                    checkpoint[s].complete, chain[s].inOrder
             PROVE  1..chain[s].first \subseteq events[s]
  BY DEF InOrderIsWhole
<1>1. checkpoint[s].next = None
  BY DEF ChainInv, CompleteOK
<1>2. Reaches(s, 0)
  BY <1>1 DEF ChainInv, ChainOK, Low
<1>3. chain[s].first \in Nat
  BY DEF Typed, TypeOK, Chain
<1> QED
  BY <1>2, <1>3 DEF Reaches

LEMMA AlwaysChain == Spec => []ChainInv
BY InitChain, NextChain, AlwaysTyped, PTL DEF Spec

(* A history whose pages were stored one after the other and which is      *)
(* recorded as complete lacks none of the events its first page counted,   *)
(* whichever providers, page sizes, failures and processes were involved.  *)
THEOREM CompleteInOrder == Spec => []InOrderIsWhole
BY AlwaysChain, AlwaysTyped, ChainInOrder, PTL

-----------------------------------------------------------------------------
(* Results shown as complete.                                              *)

ResultOK(v) ==
  result[v] # None /\ result[v].completeness = "complete" =>
    /\ pc[v] \in {"load_page", "reload"} =>
         1..result[v].upTo \subseteq events[request[v].scope]
    /\ pc[v] = "deliver" => 1..result[v].upTo \subseteq result[v].items

ResultsOK == ShownCompleteIsWhole /\ \A v \in Views : ResultOK(v)

LEMMA ResultsFrame ==
  ASSUME Typed, Typed', ResultsOK, [Next]_vars,
         \A w \in Views : shown'[w] \in {shown[w], None},
         \A w \in Views : pc'[w] \in {"load_page", "reload", "deliver"} =>
           pc'[w] = pc[w] /\ request'[w] = request[w] /\ result'[w] = result[w]
  PROVE  ResultsOK'
<1>1. ShownCompleteIsWhole'
  BY DEF ResultsOK, ShownCompleteIsWhole
<1>2. ASSUME NEW w \in Views PROVE ResultOK(w)'
  <2>1. pc[w] \in {"load_page", "reload", "deliver"} => request[w].scope \in Scopes
    BY DEF Typed, TypeOK, TasksOK, Request
  <2> QED
    BY <2>1, LedgerGrows DEF ResultsOK, ResultOK
<1> QED
  BY <1>1, <1>2 DEF ResultsOK

LEMMA NextResults ==
  Typed /\ Typed' /\ InOrderIsWhole /\ InOrderIsWhole' /\ ResultsOK /\ [Next]_vars => ResultsOK'
<1> SUFFICES ASSUME Typed, Typed', InOrderIsWhole, InOrderIsWhole', ResultsOK, [Next]_vars
             PROVE  ResultsOK'
  OBVIOUS
<1>1. /\ pc \in [Views -> PCs] /\ shown \in [Views -> Result \cup {None}]
      /\ request \in [Views -> Request \cup {None}] /\ result \in [Views -> Result \cup {None}]
      /\ events \in [Scopes -> SUBSET Nat] /\ chain \in [Scopes -> Chain]
  BY DEF Typed, TypeOK, PCs
<1>2. CASE UNCHANGED vars \/ NewEvent \/ Age
  BY <1>1, <1>2, ResultsFrame DEF vars, NewEvent, Age, viewVars, taskVars
<1>3. ASSUME NEW v \in Views, User(v) \/ Expire(v) \/ Restart(v) PROVE ResultsOK'
  BY <1>1, <1>3, ResultsFrame
     DEF User, ChangeInputs, StartOver, NextPage, RetryLast, LoadPage, Cancel, ClearCache, Goto,
         Expire, Restart, FinishTask, viewVars, taskVars
<1>4. ASSUME NEW v \in Views, Task(v) PROVE ResultsOK'
  <2>1. ASSUME ResultOK(v)', UNCHANGED shown, NEW label \in PCs, pc' = [pc EXCEPT ![v] = label],
               \A w \in Views \ {v} : result'[w] = result[w], UNCHANGED request
        PROVE  ResultsOK'
    <3>1. ShownCompleteIsWhole'
      BY <2>1 DEF ResultsOK, ShownCompleteIsWhole
    <3>2. ASSUME NEW w \in Views \ {v} PROVE ResultOK(w)'
      <4>1. pc[w] \in {"load_page", "reload", "deliver"} => request[w].scope \in Scopes
        BY DEF Typed, TypeOK, TasksOK, Request
      <4> QED
        BY <1>1, <2>1, <3>2, <4>1, LedgerGrows DEF ResultsOK, ResultOK
    <3> QED
      BY <2>1, <3>1, <3>2 DEF ResultsOK
  <2>2. CASE CachedPage(v)
    <3>1. PICK e \in Hits(v, KeyOf(request[v])) : result' = [result EXCEPT ![v] =
            [items |-> e.items, next |-> e.next, completeness |-> "complete", cached |-> TRUE,
             upTo |-> 0]]
      BY <2>2, Zenon DEF CachedPage
    <3>2. ResultOK(v)'
      BY <1>1, <2>2, <3>1 DEF ResultOK, CachedPage, Goto
    <3> QED
      BY <1>1, <2>1, <2>2, <3>1, <3>2 DEF CachedPage, Goto, viewVars, PCs
  <2>3. CASE ReadCheckpoint(v)
    <3> DEFINE s == request[v].scope
    <3>1. s \in Scopes /\ checkpoint[s] # None
      BY <2>3 DEF ReadCheckpoint, UsesLedger, Typed, TypeOK, TasksOK, Request
    <3>2. /\ result'[v].upTo = Covered(chain[s])
          /\ result'[v].completeness = PersistedCompleteness(checkpoint[s])
          /\ UNCHANGED <<events, request, shown>> /\ pc' = [pc EXCEPT ![v] = "load_page"]
          /\ \A w \in Views \ {v} : result'[w] = result[w]
      BY <1>1, <2>3 DEF ReadCheckpoint, Goto, ledgerVars, viewVars
    <3>3. PersistedCompleteness(checkpoint[s]) = "complete" => checkpoint[s].complete
      BY DEF PersistedCompleteness
    <3>4. checkpoint[s].complete => 1..Covered(chain[s]) \subseteq events[s]
      BY <3>1 DEF InOrderIsWhole, Covered
    <3>5. ResultOK(v)'
      BY <1>1, <3>2, <3>3, <3>4 DEF ResultOK
    <3> QED
      BY <2>1, <3>2, <3>5 DEF PCs
  <2>4. CASE PersistPage(v)
    <3> DEFINE r == request[v]
               pg == page[v]
    <3>1. r.scope \in Scopes /\ pg \in Page
      BY <2>4 DEF PersistPage, Typed, TypeOK, TasksOK, Request
    <3>2. /\ result'[v].upTo = Covered(Chained(r, pg))
          /\ result'[v].completeness = IF pg.next = None THEN "complete" ELSE "partial"
          /\ UNCHANGED <<request, shown>> /\ pc' = [pc EXCEPT ![v] = "reload"]
          /\ \A w \in Views \ {v} : result'[w] = result[w]
      BY <1>1, <2>4 DEF PersistPage, Goto, viewVars
    <3>3. /\ checkpoint' = [checkpoint EXCEPT ![r.scope] =
                             [next |-> pg.next, complete |-> pg.next = None, old |-> FALSE]]
          /\ chain' = [chain EXCEPT ![r.scope] = Chained(r, pg)]
      BY <2>4 DEF PersistPage
    <3>4. chain'[r.scope] = Chained(r, pg)
      BY <1>1, <3>1, <3>3
    <3> DEFINE row == [next |-> pg.next, complete |-> pg.next = None, old |-> FALSE]
    <3>5. row \in Checkpoint /\ row # None /\ (row.complete <=> pg.next = None)
      <4>1. row \in Checkpoint
        BY <3>1 DEF Checkpoint, Page
      <4> QED
        BY <4>1, NoneIsNoRecord
    <3>6. checkpoint'[r.scope] = row
      BY <3>1, <3>3 DEF Typed, TypeOK
    <3>7. pg.next = None => 1..Covered(Chained(r, pg)) \subseteq events'[r.scope]
      <4> HIDE DEF row
      <4> QED
        BY <3>1, <3>4, <3>5, <3>6 DEF InOrderIsWhole, Covered
    <3>8. ResultOK(v)'
      BY <1>1, <3>2, <3>7 DEF ResultOK
    <3> QED
      BY <2>1, <3>2, <3>8 DEF PCs
  <2>5. CASE ReadPage(v) \/ Reload(v)
    <3>1. result[v] \in Result /\ pc[v] \in {"load_page", "reload"} /\ result[v] # None
      BY <2>5 DEF ReadPage, Reload, Typed, TypeOK, TasksOK
    <3>2. /\ result' = [result EXCEPT ![v] = LoadedPage(v, request[v].scope)]
          /\ UNCHANGED <<request, shown>> /\ pc' = [pc EXCEPT ![v] = "deliver"]
      BY <2>5 DEF ReadPage, Reload, Goto, viewVars
    <3>3. /\ LoadedPage(v, request[v].scope).upTo = result[v].upTo
          /\ LoadedPage(v, request[v].scope).completeness = result[v].completeness
          /\ LoadedPage(v, request[v].scope).items = events[request[v].scope]
      BY <3>1 DEF LoadedPage, Result
    <3>4. ResultOK(v)
      BY DEF ResultsOK
    <3>5. ResultOK(v)'
      BY <1>1, <3>1, <3>2, <3>3, <3>4 DEF ResultOK
    <3> QED
      BY <1>1, <2>1, <3>2, <3>5 DEF PCs
  <2>6. CASE AskProvider(v) \/ Fetch(v) \/ Fail(v)
    BY <1>1, <2>6, ResultsFrame DEF AskProvider, Fetch, Fail, Goto, viewVars
  <2>7. CASE Deliver(v)
    <3>1. ResultOK(v) /\ pc[v] = "deliver"
      BY <2>7 DEF ResultsOK, Deliver
    <3>2. /\ shown' = [shown EXCEPT ![v] = result[v]] /\ pc' = [pc EXCEPT ![v] = "idle"]
          /\ \A w \in Views \ {v} : result'[w] = result[w] /\ request'[w] = request[w]
          /\ UNCHANGED events
      BY <1>1, <2>7 DEF Deliver, FinishTask, Goto, ledgerVars
    <3>3. ShownCompleteIsWhole'
      BY <1>1, <3>1, <3>2 DEF ResultsOK, ResultOK, ShownCompleteIsWhole
    <3>4. \A w \in Views : ResultOK(w)'
      BY <1>1, <3>2 DEF ResultsOK, ResultOK
    <3> QED
      BY <3>3, <3>4 DEF ResultsOK
  <2>8. CASE Skip(v) \/ DeliverError(v) \/ Suppress(v)
    BY <1>1, <2>8, ResultsFrame DEF Skip, DeliverError, Suppress, FinishTask, Goto, viewVars
  <2> QED
    BY <1>4, <2>2, <2>3, <2>4, <2>5, <2>6, <2>7, <2>8 DEF Task
<1> QED
  BY <1>2, <1>3, <1>4 DEF Next

(* A result shown as complete, unless it came from the page cache, holds   *)
(* all a complete history had to hold although its label and its events    *)
(* are read in two transactions.                                           *)
THEOREM ShownComplete == Spec => []ShownCompleteIsWhole
<1>1. Init => ResultsOK
  BY DEF Init, ResultsOK, ResultOK, ShownCompleteIsWhole
<1>2. ResultsOK => ShownCompleteIsWhole
  BY DEF ResultsOK
<1> QED
  BY <1>1, <1>2, NextResults, AlwaysTyped, CompleteInOrder, PTL DEF Spec

=============================================================================
