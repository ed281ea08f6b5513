--------------------------- MODULE StockTokenAudit ---------------------------
(***************************************************************************)
(* The local audit trail of a Robinhood Stock Token: multiplier            *)
(* observations and corporate actions, refreshed by the Token Detail page  *)
(* and by the audit browser, each on threads of its own, over one database *)
(* and one cache.  What the issuer publishes of the listed contract is a   *)
(* version number; its one corporate action appears with version 1.        *)
(***************************************************************************)
EXTENDS Integers, Sequences, FiniteSets

CONSTANTS
  Listed,       \* a contract of the issuer's catalogue
  Unlisted,     \* a contract that is not
  Reissued,     \* versions published under another asset id
  MaxVersion, MaxTime, MaxRefreshes, MaxFailures   \* bounds; a load counts as a refresh

Contracts == {Listed, Unlisted}
Absent == -1
Nowhere == "no contract"      \* of Robinhood Chain: nothing, or no address, in the input

ASSUME StockTokenAuditAssumption ==
  /\ {MaxVersion, MaxTime, MaxRefreshes, MaxFailures} \subseteq Nat
  /\ Reissued \subseteq 1..MaxVersion /\ Listed # Unlisted /\ Nowhere \notin Contracts

VARIABLES
  served,     \* the version the issuer serves
  cached,        \* the catalogue and the actions in the cache
  clock,
  observations,  \* stock_token_multiplier_observations of the listed contract
  actionRow,        \* its row in stock_token_corporate_actions
  task,          \* the page's task and two of the browser
  browser,       \* the contract it shows, its rows, whether it is busy
  spent          \* bounds used up

auditVars == <<served, cached, clock, observations, actionRow, task, browser, spent>>

\* A cancelled browser task may still run when the next one starts.
BrowserTasks == {"browser", "next browser"}
Tasks == {"page"} \cup BrowserTasks

NoTask == [step |-> "none", contract |-> Nowhere, catalogue |-> Absent, again |-> Absent,
           actions |-> Absent, at |-> 0, cancelled |-> FALSE, rows |-> <<>>]
NoRows == [contract |-> Nowhere, rows |-> <<>>]
Database == <<observations, actionRow>>

AuditInit ==
  /\ served = 0 /\ cached = [catalogue |-> Absent, actions |-> Absent] /\ clock = 0
  /\ observations = <<>> /\ actionRow = [version |-> Absent, first |-> 0, last |-> 0]
  /\ task = [t \in Tasks |-> NoTask]
  /\ browser = [scope |-> Nowhere, shown |-> NoRows, busy |-> FALSE]
  /\ spent = [refreshes |-> 0, failures |-> 0]

At(t, step) == task[t].step = step
StepTo(t, step) == task' = [task EXCEPT ![t].step = step]
NoteFailure == spent.failures < MaxFailures /\ spent' = [spent EXCEPT !.failures = @ + 1]
Refreshing == spent.refreshes < MaxRefreshes /\ spent' = [spent EXCEPT !.refreshes = @ + 1]

-----------------------------------------------------------------------------
(* The issuer, the clock, the expiry of the cache.                         *)

IssuerPublishes ==
  /\ served < MaxVersion /\ served' = served + 1
  /\ UNCHANGED <<cached, clock, Database, task, browser, spent>>

Tick ==
  /\ clock < MaxTime /\ clock' = clock + 1
  /\ UNCHANGED <<served, cached, Database, task, browser, spent>>

ExpirePayload ==
  /\ \E key \in {"catalogue", "actions"} :
       cached[key] # Absent /\ cached' = [cached EXCEPT ![key] = Absent]
  /\ UNCHANGED <<served, clock, Database, task, browser, spent>>

-----------------------------------------------------------------------------
(* The provider: a cached payload is taken as it is; otherwise one is      *)
(* requested, which may fail, and kept when it has come.                   *)

\* A refresh over or failed, the saved records are read.
Ends(t) ==
  task' = [task EXCEPT ![t] = [NoTask EXCEPT !.step = "load", !.contract = task[t].contract,
                                             !.cancelled = task[t].cancelled]]
Fails(t) == Ends(t) /\ NoteFailure

Keeping(key) == IF key = "catalogue" THEN "keep catalogue" ELSE "keep actions"

CachedPayload(t, key, next) ==
  IF cached[key] # Absent
    THEN /\ task' = [task EXCEPT ![t][key] = cached[key], ![t].step = next]
         /\ UNCHANGED spent
    ELSE \/ /\ task' = [task EXCEPT ![t][key] = served, ![t].step = Keeping(key)]
            /\ UNCHANGED spent
         \/ Fails(t)

KeepPayload(t, key, next) ==
  /\ At(t, Keeping(key))
  /\ cached' = [cached EXCEPT ![key] = task[t][key]]
  /\ StepTo(t, next)
  /\ UNCHANGED <<served, clock, Database, browser, spent>>

AfterCatalogue(t) == IF t = "page" THEN "quote" ELSE "observe"

\* A contract the catalogue does not list has no refresh.
ReadCatalogue(t) ==
  /\ At(t, "catalogue")
  /\ CachedPayload(t, "catalogue",
       IF task[t].contract = Listed THEN AfterCatalogue(t) ELSE "load")
  /\ UNCHANGED <<served, cached, clock, Database, browser>>

KeepCatalogue(t) ==
  KeepPayload(t, "catalogue", IF task[t].contract = Listed THEN AfterCatalogue(t) ELSE "load")

\* The price request, which shares nothing; a failure ends the refresh there.
ReadPrice(next) ==
  \/ task' = next /\ UNCHANGED spent
  \/ Fails("page")

\* The page asks for a quote first, which reads the catalogue again; what it
\* finds listed there is not what the refresh is given.
ReadQuote ==
  /\ At("page", "quote")
  /\ IF cached.catalogue # Absent THEN ReadPrice([task EXCEPT !["page"].step = "observe"])
     ELSE \/ /\ task' = [task EXCEPT !["page"].again = served, !["page"].step = "keep again"]
             /\ UNCHANGED spent
          \/ Fails("page")
  /\ UNCHANGED <<served, cached, clock, Database, browser>>

KeepAgain ==
  /\ At("page", "keep again")
  /\ cached' = [cached EXCEPT !.catalogue = task["page"].again]
  /\ ReadPrice([task EXCEPT !["page"].again = Absent, !["page"].step = "observe"])
  /\ UNCHANGED <<served, clock, Database, browser>>

ReadActions(t) ==
  /\ At(t, "actions") /\ CachedPayload(t, "actions", "save")
  /\ UNCHANGED <<served, cached, clock, Database, browser>>

KeepActions(t) == KeepPayload(t, "actions", "save")

-----------------------------------------------------------------------------
(* StockTokenAuditService.refresh: the time of the observation is read     *)
(* before the first transaction and serves both.                           *)

Observe(t) ==
  /\ At(t, "observe")
  /\ task' = [task EXCEPT ![t].at = clock, ![t].step = "record"]
  /\ UNCHANGED <<served, cached, clock, Database, browser, spent>>

AssetId(version) == version \in Reissued

Latest == observations[Len(observations)]

\* Mutant: the times of observations are not compared.
Recordable(version, at) ==
  observations = <<>> \/ AssetId(version) = AssetId(Latest.version)

MayRecord(version, at) ==
  observations = <<>> \/ (Latest.at < at /\ AssetId(version) = AssetId(Latest.version))

SameState(version) == observations # <<>> /\ Latest.version = version

\* One BEGIN IMMEDIATE transaction; a refused state fails the refresh.
RecordMultiplier(t) ==
  /\ At(t, "record")
  /\ LET version == task[t].catalogue IN
       IF SameState(version) \/ MayRecord(version, task[t].at)
         THEN /\ observations' = IF SameState(version) THEN observations
                                 ELSE Append(observations, [version |-> version, at |-> task[t].at])
              /\ task' = [task EXCEPT ![t].catalogue = Absent, ![t].step = "actions"]
         ELSE Ends(t) /\ UNCHANGED observations
  /\ UNCHANGED <<served, cached, clock, actionRow, browser, spent>>

\* Mutant: the upsert without its WHERE clause.
Replaces(at) == TRUE

NewerOrSame(at) == actionRow.last <= at

SaveActions(t) ==
  /\ At(t, "save")
  /\ actionRow' = LET version == task[t].actions
                   at == task[t].at
               IN  IF version = 0 \/ (actionRow.version # Absent /\ ~NewerOrSame(at)) THEN actionRow
                   ELSE [version |-> version, last |-> at,
                         first |-> IF actionRow.version = Absent THEN at ELSE actionRow.first]
  /\ Ends(t)
  /\ UNCHANGED <<served, cached, clock, observations, browser, spent>>

\* The records of the contract, read without the provider.
SavedRows(contract) == IF contract = Listed THEN observations ELSE <<>>

LoadSaved(t) ==
  /\ At(t, "load")
  /\ task' = [task EXCEPT ![t].rows = SavedRows(task[t].contract), ![t].step = "loaded"]
  /\ UNCHANGED <<served, cached, clock, Database, browser, spent>>

-----------------------------------------------------------------------------
(* The browser and the page.                                               *)

\* Mutant: the tasks of the former contract are left to deliver.
LeaveTasks(tasks) == tasks

CancelAll(tasks) ==
  [t \in Tasks |-> IF t \in BrowserTasks THEN [tasks[t] EXCEPT !.cancelled = TRUE] ELSE tasks[t]]

\* A task is started with the browser's contract.
Started(tasks, step) ==
  LET free == CHOOSE t \in BrowserTasks : At(t, "none")
  IN  [tasks EXCEPT ![free] = [NoTask EXCEPT !.step = step, !.contract = browser.scope]]
FreeTask == \E t \in BrowserTasks : At(t, "none")

\* The contract in the page's input changes, by hand while the page does not
\* load and by a saved filter at any time; the browser follows the input.
EditContract(c) ==
  /\ c # browser.scope
  /\ task' = CancelAll(task)
  /\ browser' = [scope |-> c, shown |-> NoRows, busy |-> FALSE]
  /\ UNCHANGED <<served, cached, clock, Database, spent>>

\* _start: nothing while busy, nothing without a contract.
Startable == browser.scope # Nowhere /\ ~browser.busy

StartBrowser(step) ==
  /\ Startable /\ FreeTask
  /\ task' = Started(task, step)
  /\ browser' = [browser EXCEPT !.busy = TRUE]
  /\ UNCHANGED <<served, cached, clock, Database>>

LoadSavedHistory == StartBrowser("load") /\ Refreshing
RefreshHistory == StartBrowser("catalogue") /\ Refreshing

LoadPage ==
  /\ At("page", "none") /\ browser.scope # Nowhere /\ Refreshing
  /\ task' = [task EXCEPT !["page"] = [NoTask EXCEPT !.step = "catalogue", !.contract = browser.scope]]
  /\ UNCHANGED <<served, cached, clock, Database, browser>>

CancelPage ==
  /\ ~At("page", "none") /\ ~task["page"].cancelled
  /\ task' = [task EXCEPT !["page"].cancelled = TRUE]
  /\ UNCHANGED <<served, cached, clock, Database, browser, spent>>

\* The page's result gives the browser the contract its input has now, which
\* it is set to already, and loads what is saved of it.
PageLoaded ==
  /\ At("page", "loaded")
  /\ LET ended == [task EXCEPT !["page"] = NoTask]
     IN  IF task["page"].cancelled \/ ~Startable THEN task' = ended /\ UNCHANGED browser
         ELSE /\ FreeTask
              /\ task' = Started(ended, "load")
              /\ browser' = [browser EXCEPT !.busy = TRUE]
  /\ UNCHANGED <<served, cached, clock, Database, spent>>

HistoryLoaded(t) ==
  /\ At(t, "loaded") /\ t \in BrowserTasks
  /\ browser' = IF task[t].cancelled THEN browser
                ELSE [browser EXCEPT !.busy = FALSE,
                        !.shown = [contract |-> task[t].contract, rows |-> task[t].rows]]
  /\ task' = [task EXCEPT ![t] = NoTask]
  /\ UNCHANGED <<served, cached, clock, Database, spent>>

ServiceNext(t) ==
  \/ ReadCatalogue(t) \/ KeepCatalogue(t) \/ Observe(t) \/ RecordMultiplier(t)
  \/ ReadActions(t) \/ KeepActions(t) \/ SaveActions(t) \/ LoadSaved(t) \/ HistoryLoaded(t)

AuditNext ==
  \/ IssuerPublishes \/ Tick \/ ExpirePayload
  \/ ReadQuote \/ KeepAgain
  \/ \E t \in Tasks : ServiceNext(t)
  \/ \E c \in Contracts \cup {Nowhere} : EditContract(c)
  \/ LoadSavedHistory \/ RefreshHistory \/ LoadPage \/ CancelPage \/ PageLoaded

AuditSpec == AuditInit /\ [][AuditNext]_auditVars

-----------------------------------------------------------------------------
(* Properties.                                                             *)

\* The multiplier history is a history: every observation is later than the
\* one before it, of another state and of the same issuer asset, whichever
\* tasks recorded them and in whatever order they came to the lock.
HistoryAdvances ==
  \A i \in 2..Len(observations) :
    /\ observations[i-1].at < observations[i].at
    /\ observations[i-1].version # observations[i].version
    /\ AssetId(observations[i-1].version) = AssetId(observations[i].version)

\* A corporate action is only replaced by an observation that is not older,
\* and stays first seen when it was: two refreshes may save in the other
\* order than they observed.
LastSeenAdvances ==
  [][actionRow.version # Absent =>
       actionRow.last <= actionRow'.last /\ actionRow'.first = actionRow.first]_auditVars

\* The browser shows the rows of the contract it is set to, however late the
\* tasks of another contract end.
ShowsItsScope == browser.shown.contract \in {Nowhere, browser.scope}

\* "Older action observations cannot overwrite newer states" (docs/ROADMAP.md):
\* a state the issuer has replaced does not come back.
OlderNeverReplacesNewer == [][actionRow.version <= actionRow'.version]_auditVars
=============================================================================
