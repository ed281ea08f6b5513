----------------------- MODULE StockTokenAuditProofs -----------------------
(***************************************************************************)
(* Proofs about StockTokenAudit for every number of versions, refreshes,   *)
(* failures and instants.                                                  *)
(***************************************************************************)
EXTENDS StockTokenAudit, SequenceTheorems, TLAPS

Observation == [version : Int, at : Nat]
Places == Contracts \cup {Nowhere}
Steps == {"none", "catalogue", "keep catalogue", "quote", "keep again", "observe", "record", "actions",
          "keep actions", "save", "load", "loaded"}
Task == [step : Steps, contract : Places, catalogue : Int, again : Int, actions : Int, at : Nat,
         cancelled : BOOLEAN, rows : Seq(Observation)]
Browser == [scope : Places, shown : [contract : Places, rows : Seq(Observation)], busy : BOOLEAN]

TypeOK ==
  /\ served \in Nat /\ clock \in Nat
  /\ cached \in [catalogue : Int, actions : Int]
  /\ observations \in Seq(Observation)
  /\ actionRow \in [version : Int, first : Nat, last : Nat]
  /\ task \in [Tasks -> Task]
  /\ browser \in Browser

\* A task of the browser whose result may be shown is of the contract it
\* shows.  The page's own may be of a former one.
TasksOfScope ==
  \A t \in BrowserTasks :
    task[t].step # "none" /\ ~task[t].cancelled => task[t].contract = browser.scope

-----------------------------------------------------------------------------
(* Types.                                                                  *)

LEMMA NoTaskType == NoTask \in Task
BY DEF NoTask, Task, Places, Absent, Steps, Observation

LEMMA InitType == AuditInit => TypeOK
<1> SUFFICES ASSUME AuditInit PROVE TypeOK
  OBVIOUS
<1>1. task \in [Tasks -> Task]
  BY NoTaskType DEF AuditInit
<1>2. NoRows \in [contract : Places, rows : Seq(Observation)]
  BY DEF NoRows, Places
<1>3. browser \in Browser
  BY <1>2 DEF AuditInit, Places, Browser
<1> QED
  BY <1>1, <1>3 DEF AuditInit, TypeOK, Absent

LEMMA TaskUpdate ==
  ASSUME TypeOK, NEW t \in Tasks, NEW r \in Task, task' = [task EXCEPT ![t] = r]
  PROVE  task' \in [Tasks -> Task]
BY DEF TypeOK

LEMMA TaskType ==
  ASSUME TypeOK, NEW t \in Tasks
  PROVE  task[t] \in Task
BY DEF TypeOK

(* A payload is read into a field of the task, or the task ends.           *)
LEMMA EndedType ==
  ASSUME TypeOK, NEW t \in Tasks, Ends(t)
  PROVE  task' \in [Tasks -> Task]
BY NoTaskType DEF TypeOK, Ends, NoTask, Task, Steps

LEMMA StepType ==
  ASSUME TypeOK, NEW t \in Tasks, NEW s \in Steps, StepTo(t, s)
  PROVE  task' \in [Tasks -> Task]
BY DEF TypeOK, StepTo, Task

(* What a cached, a requested and a failed payload make of a task.         *)
LEMMA CatalogueRead ==
  ASSUME TypeOK, NEW t \in Tasks, NEW next \in Steps, CachedPayload(t, "catalogue", next)
  PROVE  task' \in [Tasks -> Task]
<1> DEFINE r(s, v) == [task[t] EXCEPT !.catalogue = v, !.step = s]
<1>1. ASSUME NEW s \in Steps, NEW v \in Int PROVE r(s, v) \in Task
  BY TaskType DEF Task
<1>2. cached.catalogue \in Int /\ served \in Int
  BY DEF TypeOK
<1>3. \/ task' = [task EXCEPT ![t] = r(next, cached.catalogue)]
      \/ task' = [task EXCEPT ![t] = r("keep catalogue", served)]
      \/ Fails(t)
  BY DEF CachedPayload, Keeping, TypeOK
<1>4. "keep catalogue" \in Steps
  BY DEF Steps
<1>5. r(next, cached.catalogue) \in Task /\ r("keep catalogue", served) \in Task
  BY <1>1, <1>2, <1>4
<1> HIDE DEF r
<1> QED
  BY <1>3, <1>5, EndedType, TaskUpdate DEF Fails

LEMMA ActionsRead ==
  ASSUME TypeOK, NEW t \in Tasks, NEW next \in Steps, CachedPayload(t, "actions", next)
  PROVE  task' \in [Tasks -> Task]
<1> DEFINE r(s, v) == [task[t] EXCEPT !.actions = v, !.step = s]
<1>1. ASSUME NEW s \in Steps, NEW v \in Int PROVE r(s, v) \in Task
  BY TaskType DEF Task
<1>2. cached.actions \in Int /\ served \in Int
  BY DEF TypeOK
<1>3. \/ task' = [task EXCEPT ![t] = r(next, cached.actions)]
      \/ task' = [task EXCEPT ![t] = r("keep actions", served)]
      \/ Fails(t)
  BY DEF CachedPayload, Keeping, TypeOK
<1>4. "keep actions" \in Steps
  BY DEF Steps
<1>5. r(next, cached.actions) \in Task /\ r("keep actions", served) \in Task
  BY <1>1, <1>2, <1>4
<1> HIDE DEF r
<1> QED
  BY <1>3, <1>5, EndedType, TaskUpdate DEF Fails

LEMMA ProviderType ==
  ASSUME TypeOK, NEW t \in Tasks,
         ReadCatalogue(t) \/ KeepCatalogue(t) \/ ReadActions(t) \/ KeepActions(t)
  PROVE  TypeOK'
<1>1. CASE ReadCatalogue(t)
  <2> DEFINE next == IF task[t].contract = Listed THEN AfterCatalogue(t) ELSE "load"
  <2>1. next \in Steps
    BY DEF AfterCatalogue, Steps
  <2>2. CachedPayload(t, "catalogue", next)
    BY <1>1 DEF ReadCatalogue
  <2> HIDE DEF next
  <2>3. task' \in [Tasks -> Task]
    BY <2>1, <2>2, CatalogueRead
  <2> QED
    BY <1>1, <2>3 DEF ReadCatalogue, TypeOK, Database
<1>2. CASE KeepCatalogue(t)
  <2> DEFINE next == IF task[t].contract = Listed THEN AfterCatalogue(t) ELSE "load"
  <2>1. next \in Steps
    BY DEF AfterCatalogue, Steps
  <2>2. KeepPayload(t, "catalogue", next)
    BY <1>2 DEF KeepCatalogue
  <2> HIDE DEF next
  <2>3. cached' \in [catalogue : Int, actions : Int]
    BY <2>2 DEF KeepPayload, TypeOK, Task
  <2> QED
    BY <2>1, <2>2, <2>3, StepType DEF KeepPayload, TypeOK, Database
<1>3. CASE ReadActions(t)
  <2>1. "save" \in Steps
    BY DEF Steps
  <2>2. task' \in [Tasks -> Task]
    BY <1>3, <2>1, ActionsRead DEF ReadActions
  <2> QED
    BY <1>3, <2>2 DEF ReadActions, TypeOK, Database
<1>4. CASE KeepActions(t)
  <2>1. cached' \in [catalogue : Int, actions : Int]
    BY <1>4 DEF KeepActions, KeepPayload, TypeOK, Task
  <2> QED
    BY <1>4, <2>1, StepType DEF KeepActions, KeepPayload, TypeOK, Database, Steps
<1> QED
  BY <1>1, <1>2, <1>3, <1>4

LEMMA ServiceType ==
  ASSUME TypeOK, NEW t \in Tasks,
         Observe(t) \/ RecordMultiplier(t) \/ SaveActions(t) \/ LoadSaved(t) \/ HistoryLoaded(t)
  PROVE  TypeOK'
<1>1. CASE Observe(t)
  <2> DEFINE r == [task[t] EXCEPT !.at = clock, !.step = "record"]
  <2>1. r \in Task
    BY TaskType DEF TypeOK, Task, Steps
  <2>2. task' = [task EXCEPT ![t] = r]
    BY <1>1 DEF Observe, TypeOK
  <2> HIDE DEF r
  <2> QED
    BY <1>1, <2>1, <2>2, TaskUpdate DEF Observe, TypeOK, Database
<1>2. CASE RecordMultiplier(t)
  <2>1. task[t].catalogue \in Int /\ task[t].at \in Nat
    BY DEF TypeOK, Task
  <2>2. observations' \in Seq(Observation)
    <3> DEFINE o == [version |-> task[t].catalogue, at |-> task[t].at]
    <3>1. o \in Observation
      BY <2>1 DEF Observation
    <3>2. observations' = observations \/ observations' = Append(observations, o)
      BY <1>2 DEF RecordMultiplier
    <3>3. observations \in Seq(Observation)
      BY DEF TypeOK
    <3> HIDE DEF o
    <3> QED
      BY <3>1, <3>2, <3>3, AppendProperties
  <2>3. task' \in [Tasks -> Task]
    <3> DEFINE r == [task[t] EXCEPT !.catalogue = Absent, !.step = "actions"]
    <3> Absent \in Int /\ "actions" \in Steps
      BY DEF Absent, Steps
    <3>1. r \in Task
      BY TaskType DEF Task
    <3>2. Ends(t) \/ task' = [task EXCEPT ![t] = r]
      BY <1>2 DEF RecordMultiplier, TypeOK
    <3> HIDE DEF r
    <3> QED
      BY <3>1, <3>2, EndedType, TaskUpdate
  <2> QED
    BY <1>2, <2>2, <2>3 DEF RecordMultiplier, TypeOK
<1>3. CASE SaveActions(t)
  <2>1. actionRow' \in [version : Int, first : Nat, last : Nat]
    BY <1>3 DEF SaveActions, TypeOK, Task
  <2> QED
    BY <1>3, <2>1, EndedType DEF SaveActions, TypeOK
<1>4. CASE LoadSaved(t)
  <2> DEFINE r == [task[t] EXCEPT !.rows = SavedRows(task[t].contract), !.step = "loaded"]
  <2>1. SavedRows(task[t].contract) \in Seq(Observation)
    BY DEF SavedRows, TypeOK
  <2>2. "loaded" \in Steps
    BY DEF Steps
  <2>3. r \in Task
    <3> DEFINE rows == SavedRows(task[t].contract)
    <3> HIDE DEF rows
    <3> QED
      BY <2>1, <2>2, TaskType DEF Task
  <2>4. task' = [task EXCEPT ![t] = r]
    BY <1>4 DEF LoadSaved, TypeOK
  <2> HIDE DEF r
  <2> QED
    BY <1>4, <2>3, <2>4, TaskUpdate DEF LoadSaved, TypeOK, Database
<1>5. CASE HistoryLoaded(t)
  <2>1. task' \in [Tasks -> Task]
    BY <1>5, NoTaskType DEF HistoryLoaded, TypeOK
  <2>2. browser' \in Browser
    BY <1>5 DEF HistoryLoaded, TypeOK, Task, Browser
  <2> QED
    BY <1>5, <2>1, <2>2 DEF HistoryLoaded, TypeOK, Database
<1> QED
  BY <1>1, <1>2, <1>3, <1>4, <1>5

(* The browser's task and the page's.                                      *)
LEMMA CancelledType ==
  ASSUME NEW tasks \in [Tasks -> Task]
  PROVE  CancelAll(tasks) \in [Tasks -> Task]
<1>1. ASSUME NEW t \in Tasks PROVE [tasks[t] EXCEPT !.cancelled = TRUE] \in Task
  BY DEF Task
<1> QED
  BY <1>1 DEF CancelAll

LEMMA StartedType ==
  ASSUME TypeOK, NEW tasks \in [Tasks -> Task], NEW s \in Steps
  PROVE  Started(tasks, s) \in [Tasks -> Task]
<1> DEFINE r == [NoTask EXCEPT !.step = s, !.contract = browser.scope]
<1>1. r \in Task
  BY NoTaskType DEF Task, TypeOK, Browser
<1>2. \E free : Started(tasks, s) = [tasks EXCEPT ![free] = r]
  BY DEF Started
<1> HIDE DEF r
<1> QED
  BY <1>1, <1>2

LEMMA BrowserType ==
  ASSUME TypeOK, NEW s \in Steps, StartBrowser(s)
  PROVE  TypeOK'
<1>1. task' \in [Tasks -> Task]
  BY StartedType DEF StartBrowser, TypeOK
<1>2. browser' \in Browser
  BY DEF StartBrowser, TypeOK, Browser
<1> QED
  BY <1>1, <1>2 DEF StartBrowser, TypeOK, Database

LEMMA ViewsType ==
  ASSUME TypeOK,
         (\E c \in Places : EditContract(c)) \/ LoadSavedHistory \/ RefreshHistory \/ LoadPage
           \/ CancelPage \/ PageLoaded
  PROVE  TypeOK'
<1> "load" \in Steps /\ "catalogue" \in Steps /\ "page" \in Tasks
  BY DEF Steps, Tasks
<1>1. ASSUME NEW c \in Places, EditContract(c) PROVE TypeOK'
  <2>1. task' \in [Tasks -> Task]
    BY <1>1, CancelledType DEF EditContract, TypeOK
  <2>2. NoRows \in [contract : Places, rows : Seq(Observation)]
    BY DEF NoRows, Places
  <2>3. browser' \in Browser
    BY <1>1, <2>2 DEF EditContract, Browser
  <2> QED
    BY <1>1, <2>1, <2>3 DEF EditContract, TypeOK, Database
<1>2. CASE LoadSavedHistory
  BY <1>2, BrowserType DEF LoadSavedHistory
<1>3. CASE RefreshHistory
  BY <1>3, BrowserType DEF RefreshHistory
<1>4. CASE LoadPage
  <2> DEFINE r == [NoTask EXCEPT !.step = "catalogue", !.contract = browser.scope]
  <2>1. r \in Task
    BY NoTaskType DEF Task, TypeOK, Browser
  <2>2. task' = [task EXCEPT !["page"] = r]
    BY <1>4 DEF LoadPage
  <2> HIDE DEF r
  <2> QED
    BY <1>4, <2>1, <2>2, TaskUpdate DEF LoadPage, TypeOK, Database
<1>5. CASE CancelPage
  <2> DEFINE r == [task["page"] EXCEPT !.cancelled = TRUE]
  <2>1. r \in Task
    BY TaskType DEF Task
  <2>2. task' = [task EXCEPT !["page"] = r]
    BY <1>5 DEF CancelPage, TypeOK
  <2> HIDE DEF r
  <2> QED
    BY <1>5, <2>1, <2>2, TaskUpdate DEF CancelPage, TypeOK, Database
<1>6. CASE PageLoaded
  <2> DEFINE ended == [task EXCEPT !["page"] = NoTask]
  <2>1. ended \in [Tasks -> Task]
    BY NoTaskType DEF TypeOK
  <2>2. /\ task' \in {ended, Started(ended, "load")}
        /\ browser' \in {browser, [browser EXCEPT !.busy = TRUE]}
        /\ UNCHANGED <<served, cached, clock, observations, actionRow>>
    BY <1>6 DEF PageLoaded, Database
  <2> HIDE DEF ended
  <2>3. task' \in [Tasks -> Task]
    BY <2>1, <2>2, StartedType
  <2>4. browser' \in Browser
    BY <2>2 DEF TypeOK, Browser
  <2> QED
    BY <2>2, <2>3, <2>4 DEF TypeOK
<1> QED
  BY <1>1, <1>2, <1>3, <1>4, <1>5, <1>6

LEMMA EnvironmentType ==
  ASSUME TypeOK, IssuerPublishes \/ Tick \/ ExpirePayload \/ ReadQuote \/ KeepAgain
  PROVE  TypeOK'
<1>1. CASE IssuerPublishes
  BY <1>1 DEF IssuerPublishes, TypeOK, Database
<1>2. CASE Tick
  BY <1>2 DEF Tick, TypeOK, Database
<1>3. CASE ExpirePayload
  <2>1. Absent \in Int
    BY DEF Absent
  <2>2. cached' \in [catalogue : Int, actions : Int]
    BY <1>3, <2>1 DEF ExpirePayload, TypeOK
  <2> QED
    BY <1>3, <2>2 DEF ExpirePayload, TypeOK, Database
<1>4. CASE ReadQuote \/ KeepAgain
  <2> DEFINE r1 == [task["page"] EXCEPT !.step = "observe"]
             r2 == [task["page"] EXCEPT !.again = served, !.step = "keep again"]
             r3 == [task["page"] EXCEPT !.again = Absent, !.step = "observe"]
  <2>1. "page" \in Tasks
    BY DEF Tasks
  <2>2. r1 \in Task /\ r2 \in Task /\ r3 \in Task
    <3>1. {"observe", "keep again"} \subseteq Steps /\ Absent \in Int /\ served \in Int
      BY DEF Steps, Absent, TypeOK
    <3> QED
      BY <2>1, <3>1, TaskType DEF Task
  <2>3. \/ \E r \in {r1, r2, r3} : task' = [task EXCEPT !["page"] = r]
        \/ Ends("page")
    BY <1>4, <2>1 DEF ReadQuote, KeepAgain, ReadPrice, StepTo, Fails, TypeOK
  <2> HIDE DEF r1, r2, r3
  <2>4. task' \in [Tasks -> Task]
    BY <2>1, <2>2, <2>3, EndedType, TaskUpdate
  <2>5. cached' \in [catalogue : Int, actions : Int]
    BY <1>4, <2>1 DEF ReadQuote, KeepAgain, TypeOK, Task
  <2> QED
    BY <1>4, <2>4, <2>5 DEF ReadQuote, KeepAgain, TypeOK, Database
<1> QED
  BY <1>1, <1>2, <1>3, <1>4

(* Every variable keeps its type.                                          *)
THEOREM TypeCorrect == AuditSpec => []TypeOK
<1>1. TypeOK /\ [AuditNext]_auditVars => TypeOK'
  <2> SUFFICES ASSUME TypeOK, [AuditNext]_auditVars PROVE TypeOK'
    OBVIOUS
  <2>1. CASE UNCHANGED auditVars
    BY <2>1 DEF auditVars, TypeOK
  <2>2. ASSUME NEW t \in Tasks, ServiceNext(t) PROVE TypeOK'
    BY <2>2, ProviderType, ServiceType DEF ServiceNext
  <2> QED
    BY <2>1, <2>2, ViewsType, EnvironmentType DEF AuditNext, Places
<1> QED
  BY <1>1, InitType, PTL DEF AuditSpec

-----------------------------------------------------------------------------
(* The history.  Only RecordMultiplier writes it, and what it appends is   *)
(* compared with the latest observation inside the transaction.            *)

LEMMA OnlyRecords ==
  ASSUME [AuditNext]_auditVars
  PROVE  observations' = observations \/ \E t \in Tasks : RecordMultiplier(t)
BY DEF AuditNext, ServiceNext, auditVars, IssuerPublishes, Tick, ExpirePayload, ReadQuote, KeepAgain, ReadCatalogue,
       KeepCatalogue, KeepPayload, Observe, ReadActions, KeepActions, SaveActions, LoadSaved,
       HistoryLoaded, EditContract, LoadSavedHistory, RefreshHistory, StartBrowser, LoadPage,
       CancelPage, PageLoaded, Database

LEMMA HistoryStep ==
  ASSUME TypeOK, HistoryAdvances, [AuditNext]_auditVars
  PROVE  HistoryAdvances'
<1>1. CASE observations' = observations
  BY <1>1 DEF HistoryAdvances
<1>2. ASSUME NEW t \in Tasks, RecordMultiplier(t), observations' # observations
      PROVE  HistoryAdvances'
  <2> DEFINE o == [version |-> task[t].catalogue, at |-> task[t].at]
  <2>1. /\ observations' = Append(observations, o)
        /\ ~SameState(o.version)
        /\ MayRecord(o.version, o.at)
    BY <1>2 DEF RecordMultiplier
  <2>2. o \in Observation
    BY DEF TypeOK, Task, Observation
  <2>3. observations \in Seq(Observation)
    BY DEF TypeOK
  <2> HIDE DEF o
  <2>4. /\ Len(observations') = Len(observations) + 1
        /\ \A i \in 1..Len(observations) : observations'[i] = observations[i]
        /\ observations'[Len(observations) + 1] = o
    BY <2>1, <2>2, <2>3, AppendProperties
  <2>5. Len(observations) \in Nat /\ (Len(observations) = 0 => observations = <<>>)
    BY <2>3
  <2>6. ASSUME NEW i \in 2..Len(observations'), i <= Len(observations)
        PROVE  /\ observations'[i-1].at < observations'[i].at
               /\ observations'[i-1].version # observations'[i].version
               /\ AssetId(observations'[i-1].version) = AssetId(observations'[i].version)
    <3>1. i \in 2..Len(observations) /\ i - 1 \in 1..Len(observations) /\ i \in 1..Len(observations)
      BY <2>5, <2>6
    <3>2. observations'[i] = observations[i] /\ observations'[i-1] = observations[i-1]
      BY <2>4, <3>1
    <3> QED
      BY <3>1, <3>2 DEF HistoryAdvances
  <2>7. ASSUME NEW i \in 2..Len(observations'), i = Len(observations) + 1
        PROVE  /\ observations'[i-1].at < observations'[i].at
               /\ observations'[i-1].version # observations'[i].version
               /\ AssetId(observations'[i-1].version) = AssetId(observations'[i].version)
    <3>1. i - 1 = Len(observations) /\ i - 1 \in 1..Len(observations) /\ observations # <<>>
      BY <2>3, <2>5, <2>7
    <3>2. observations'[i] = o /\ observations'[i-1] = Latest
      BY <2>4, <2>7, <3>1 DEF Latest
    <3>3. Latest.version # o.version /\ Latest.at < o.at /\ AssetId(o.version) = AssetId(Latest.version)
      BY <2>1, <3>1 DEF SameState, MayRecord
    <3> QED
      BY <3>2, <3>3
  <2>8. \A i \in 2..Len(observations') : i <= Len(observations) \/ i = Len(observations) + 1
    BY <2>4, <2>5
  <2> QED
    BY <2>6, <2>7, <2>8 DEF HistoryAdvances
<1> QED
  BY <1>1, <1>2, OnlyRecords

(* Every observation of the multiplier is later than the one before it, of *)
(* another state and of the same issuer asset: the transaction compares    *)
(* with the latest row, so the order in which tasks observed does not      *)
(* matter (stock_token_audit_repository.py, record_multiplier).            *)
THEOREM HistoryAdvancesTheorem == AuditSpec => []HistoryAdvances
<1>1. AuditInit => HistoryAdvances
  BY DEF AuditInit, HistoryAdvances
<1> QED
  BY <1>1, TypeCorrect, HistoryStep, PTL DEF AuditSpec

-----------------------------------------------------------------------------
(* The corporate action.                                                   *)

LEMMA OnlySaves ==
  ASSUME [AuditNext]_auditVars
  PROVE  actionRow' = actionRow \/ \E t \in Tasks : SaveActions(t)
BY DEF AuditNext, ServiceNext, auditVars, IssuerPublishes, Tick, ExpirePayload, ReadQuote, KeepAgain, ReadCatalogue,
       KeepCatalogue, KeepPayload, Observe, ReadActions, KeepActions, RecordMultiplier, LoadSaved,
       HistoryLoaded, EditContract, LoadSavedHistory, RefreshHistory, StartBrowser, LoadPage,
       CancelPage, PageLoaded, Database

(* The row of a corporate action is replaced by a later or equal           *)
(* observation only, and keeps when it was first seen: the WHERE clause of *)
(* the upsert, whichever refresh comes last.                               *)
THEOREM LastSeenAdvancesTheorem == AuditSpec => LastSeenAdvances
<1>1. ASSUME TypeOK, [AuditNext]_auditVars
      PROVE  [actionRow.version # Absent =>
                actionRow.last <= actionRow'.last /\ actionRow'.first = actionRow.first]_auditVars
  <2>1. actionRow.last \in Nat
    BY <1>1 DEF TypeOK
  <2>2. CASE actionRow' = actionRow
    BY <2>1, <2>2
  <2>3. ASSUME NEW t \in Tasks, SaveActions(t), actionRow.version # Absent
        PROVE  actionRow.last <= actionRow'.last /\ actionRow'.first = actionRow.first
    BY <2>1, <2>3 DEF SaveActions, NewerOrSame
  <2> QED
    BY <1>1, <2>2, <2>3, OnlySaves
<1> QED
  BY <1>1, TypeCorrect, PTL DEF AuditSpec, LastSeenAdvances

-----------------------------------------------------------------------------
(* What the browser shows.  A running task keeps its contract, and is only *)
(* ever cancelled, until it ends; a change of the scope cancels the        *)
(* browser's tasks with the same step.                                     *)

Of(r, s) == r.contract = s.contract /\ (s.cancelled => r.cancelled)

\* Task t goes on, or is cancelled; everything else about tasks stays.
GoesOn(t) ==
  /\ task[t].step # "none" /\ Of(task'[t], task[t])
  /\ \A u \in Tasks \ {t} : task'[u] = task[u]
  /\ browser' = browser

LEMMA Going ==
  ASSUME TypeOK, NEW t \in Tasks,
         \/ \E s \in Steps : task' = [task EXCEPT ![t].step = s]
         \/ Ends(t)
         \/ \E r : /\ task' = [task EXCEPT ![t] = r]
                   /\ Of(r, task[t]),
         task[t].step # "none", browser' = browser
  PROVE  GoesOn(t)
<1>1. ASSUME NEW r, task' = [task EXCEPT ![t] = r], Of(r, task[t]) PROVE GoesOn(t)
  BY <1>1 DEF GoesOn, TypeOK
<1>2. ASSUME NEW s \in Steps, task' = [task EXCEPT ![t].step = s] PROVE GoesOn(t)
  <2> DEFINE r == [task[t] EXCEPT !.step = s]
  <2>1. task' = [task EXCEPT ![t] = r] /\ Of(r, task[t])
    BY <1>2 DEF Of, TypeOK, Task
  <2> HIDE DEF r
  <2> QED
    BY <2>1, <1>1
<1>3. CASE Ends(t)
  <2> DEFINE r == [NoTask EXCEPT !.step = "load", !.contract = task[t].contract,
                                 !.cancelled = task[t].cancelled]
  <2>1. task' = [task EXCEPT ![t] = r]
    BY <1>3 DEF Ends
  <2>2. Of(r, task[t])
    BY DEF Of, NoTask
  <2> HIDE DEF r
  <2> QED
    BY <2>1, <2>2, <1>1
<1> QED
  BY <1>1, <1>2, <1>3

LEMMA PayloadGoing ==
  ASSUME TypeOK, NEW t \in Tasks, NEW key \in {"catalogue", "actions"}, NEW next,
         CachedPayload(t, key, next), task[t].step # "none", browser' = browser
  PROVE  GoesOn(t)
<1>1. CASE Ends(t)
  BY <1>1, Going
<1>2. CASE \E v, s : task' = [task EXCEPT ![t][key] = v, ![t].step = s]
  <2>1. PICK v, s : task' = [task EXCEPT ![t][key] = v, ![t].step = s]
    BY <1>2
  <2> DEFINE r == [[task[t] EXCEPT ![key] = v] EXCEPT !.step = s]
  <2>2. task' = [task EXCEPT ![t] = r]
    BY <2>1 DEF TypeOK
  <2>3. Of(r, task[t])
    BY DEF Of, TypeOK, Task
  <2> HIDE DEF r
  <2> QED
    BY <2>2, <2>3, Going
<1> QED
  BY <1>1, <1>2 DEF CachedPayload, Fails

LEMMA ServiceGoing ==
  ASSUME TypeOK, NEW t \in Tasks,
         \/ ReadCatalogue(t) \/ KeepCatalogue(t) \/ ReadActions(t) \/ KeepActions(t)
         \/ Observe(t) \/ RecordMultiplier(t) \/ SaveActions(t) \/ LoadSaved(t)
  PROVE  GoesOn(t)
<1>1. CASE ReadCatalogue(t)
  BY <1>1, PayloadGoing DEF ReadCatalogue, At
<1>2. CASE ReadActions(t)
  BY <1>2, PayloadGoing DEF ReadActions, At
<1>3. CASE KeepCatalogue(t) \/ KeepActions(t)
  <2>1. /\ \E s \in Steps : task' = [task EXCEPT ![t].step = s]
        /\ task[t].step # "none" /\ browser' = browser
    BY <1>3 DEF KeepCatalogue, KeepActions, KeepPayload, Keeping, StepTo, At, Steps, AfterCatalogue
  <2> QED
    BY <2>1, Going
<1>4. CASE Observe(t)
  <2> DEFINE r == [task[t] EXCEPT !.at = clock, !.step = "record"]
  <2>1. task' = [task EXCEPT ![t] = r] /\ Of(r, task[t])
    BY <1>4 DEF Observe, Of, TypeOK, Task
  <2> HIDE DEF r
  <2> QED
    BY <1>4, <2>1, Going DEF Observe, At
<1>5. CASE RecordMultiplier(t)
  <2> DEFINE r == [task[t] EXCEPT !.catalogue = Absent, !.step = "actions"]
  <2>1. Ends(t) \/ task' = [task EXCEPT ![t] = r]
    BY <1>5 DEF RecordMultiplier, TypeOK
  <2>2. Of(r, task[t])
    BY DEF Of, TypeOK, Task
  <2> HIDE DEF r
  <2> QED
    BY <1>5, <2>1, <2>2, Going DEF RecordMultiplier, At
<1>6. CASE SaveActions(t)
  BY <1>6, Going DEF SaveActions, At
<1>7. CASE LoadSaved(t)
  <2> DEFINE rows == SavedRows(task[t].contract)
             r == [task[t] EXCEPT !.rows = rows, !.step = "loaded"]
  <2>1. task' = [task EXCEPT ![t] = r]
    BY <1>7 DEF LoadSaved, TypeOK
  <2> HIDE DEF rows
  <2>2. Of(r, task[t])
    BY DEF Of, TypeOK, Task
  <2> HIDE DEF r
  <2> QED
    BY <1>7, <2>1, <2>2, Going DEF LoadSaved, At
<1> QED
  BY <1>1, <1>2, <1>3, <1>4, <1>5, <1>6, <1>7

LEMMA PageGoing ==
  ASSUME TypeOK, ReadQuote \/ KeepAgain \/ CancelPage
  PROVE  GoesOn("page")
<1> DEFINE r1 == [task["page"] EXCEPT !.step = "observe"]
           r2 == [task["page"] EXCEPT !.again = served, !.step = "keep again"]
           r3 == [task["page"] EXCEPT !.again = Absent, !.step = "observe"]
           r4 == [task["page"] EXCEPT !.cancelled = TRUE]
<1>1. "page" \in Tasks
  BY DEF Tasks
<1>2. Ends("page") \/ \E r \in {r1, r2, r3, r4} : task' = [task EXCEPT !["page"] = r]
  BY <1>1 DEF ReadQuote, KeepAgain, ReadPrice, CancelPage, StepTo, Fails, TypeOK
<1>3. \A r \in {r1, r2, r3, r4} : Of(r, task["page"])
  BY <1>1 DEF Of, TypeOK, Task
<1>4. task["page"].step # "none" /\ browser' = browser
  BY DEF ReadQuote, KeepAgain, CancelPage, At
<1> HIDE DEF r1, r2, r3, r4
<1> QED
  BY <1>1, <1>2, <1>3, <1>4, Going

LEMMA GoingKeepsScope ==
  ASSUME TypeOK, TasksOfScope, ShowsItsScope, NEW t \in Tasks, GoesOn(t)
  PROVE  TasksOfScope' /\ ShowsItsScope'
<1>1. \A u \in Tasks : task'[u].step # "none" /\ ~task'[u].cancelled
        => task[u].step # "none" /\ ~task[u].cancelled /\ task'[u].contract = task[u].contract
  BY DEF GoesOn, Of, TypeOK, Task
<1> QED
  BY <1>1 DEF TasksOfScope, ShowsItsScope, GoesOn, BrowserTasks, Tasks

LEMMA BrowserKeepsScope ==
  ASSUME TypeOK, TasksOfScope, ShowsItsScope, NEW s, StartBrowser(s)
  PROVE  TasksOfScope' /\ ShowsItsScope'
<1> DEFINE r == [NoTask EXCEPT !.step = s, !.contract = browser.scope]
<1>1. r.contract = browser.scope
  BY DEF NoTask
<1>2. \E free \in BrowserTasks : task' = [task EXCEPT ![free] = r]
  BY DEF StartBrowser, Started, FreeTask, Startable
<1>3. browser'.scope = browser.scope /\ browser'.shown = browser.shown
  BY DEF StartBrowser, TypeOK, Browser
<1> HIDE DEF r
<1>4. \A u \in Tasks : task'[u] = task[u] \/ (u \in BrowserTasks /\ task'[u] = r)
  BY <1>2 DEF TypeOK
<1>5. "page" \notin BrowserTasks /\ "page" \in Tasks /\ BrowserTasks \subseteq Tasks
  BY DEF BrowserTasks, Tasks
<1> QED
  BY <1>1, <1>3, <1>4, <1>5 DEF TasksOfScope, ShowsItsScope

LEMMA ViewsKeepScope ==
  ASSUME TypeOK, TasksOfScope, ShowsItsScope,
         \/ \E c \in Places : EditContract(c)
         \/ LoadSavedHistory \/ RefreshHistory \/ LoadPage \/ PageLoaded
         \/ \E t \in Tasks : HistoryLoaded(t)
  PROVE  TasksOfScope' /\ ShowsItsScope'
<1>0. "page" \notin BrowserTasks /\ "page" \in Tasks /\ BrowserTasks \subseteq Tasks
  BY DEF BrowserTasks, Tasks
<1>1. ASSUME NEW c \in Places, EditContract(c) PROVE TasksOfScope' /\ ShowsItsScope'
  <2>1. task' = CancelAll(task) /\ browser' = [scope |-> c, shown |-> NoRows, busy |-> FALSE]
    BY <1>1 DEF EditContract
  <2>2. \A t \in BrowserTasks : task'[t].cancelled
    BY <1>0, <2>1 DEF CancelAll, TypeOK, Task
  <2> QED
    BY <2>1, <2>2 DEF TasksOfScope, ShowsItsScope, NoRows
<1>2. CASE LoadSavedHistory \/ RefreshHistory
  BY <1>2, BrowserKeepsScope DEF LoadSavedHistory, RefreshHistory
<1>3. CASE LoadPage
  <2>1. (\A t \in BrowserTasks : task'[t] = task[t]) /\ browser' = browser
    BY <1>0, <1>3 DEF LoadPage, TypeOK
  <2> QED
    BY <2>1 DEF TasksOfScope, ShowsItsScope
<1>4. CASE PageLoaded
  <2> DEFINE ended == [task EXCEPT !["page"] = NoTask]
             r == [NoTask EXCEPT !.step = "load", !.contract = browser.scope]
  <2>1. task' = ended \/ \E free \in BrowserTasks : task' = [ended EXCEPT ![free] = r]
    BY <1>4 DEF PageLoaded, Started, FreeTask
  <2>2. browser'.scope = browser.scope /\ browser'.shown = browser.shown
    BY <1>4 DEF PageLoaded, TypeOK, Browser
  <2>3. \A t \in BrowserTasks : ended[t] = task[t]
    BY <1>0 DEF TypeOK
  <2>4. ended \in [Tasks -> Task] /\ r.contract = browser.scope
    BY NoTaskType DEF TypeOK, NoTask
  <2> HIDE DEF ended, r
  <2>5. \A t \in BrowserTasks : task'[t] = task[t] \/ task'[t].contract = browser.scope
    BY <1>0, <2>1, <2>3, <2>4
  <2> QED
    BY <2>2, <2>5 DEF TasksOfScope, ShowsItsScope
<1>5. ASSUME NEW t \in Tasks, HistoryLoaded(t) PROVE TasksOfScope' /\ ShowsItsScope'
  <2>1. /\ browser'.scope = browser.scope
        /\ browser'.shown.contract \in {browser.shown.contract, browser.scope}
    BY <1>5 DEF HistoryLoaded, At, TasksOfScope, TypeOK, Browser
  <2>2. \A u \in Tasks : task'[u] = task[u] \/ task'[u].step = "none"
    BY <1>5 DEF HistoryLoaded, NoTask, TypeOK
  <2> QED
    BY <1>0, <2>1, <2>2 DEF TasksOfScope, ShowsItsScope
<1> QED
  BY <1>1, <1>2, <1>3, <1>4, <1>5

LEMMA ScopeStep ==
  ASSUME TypeOK, TasksOfScope, ShowsItsScope, [AuditNext]_auditVars
  PROVE  TasksOfScope' /\ ShowsItsScope'
<1>1. CASE UNCHANGED <<task, browser>>
  BY <1>1 DEF TasksOfScope, ShowsItsScope
<1>2. ASSUME NEW t \in Tasks, ServiceNext(t) PROVE TasksOfScope' /\ ShowsItsScope'
  BY <1>2, ServiceGoing, GoingKeepsScope, ViewsKeepScope DEF ServiceNext
<1>3. CASE ReadQuote \/ KeepAgain \/ CancelPage
  <2>1. "page" \in Tasks
    BY DEF Tasks
  <2> QED
    BY <1>3, <2>1, PageGoing, GoingKeepsScope
<1>4. CASE IssuerPublishes \/ Tick \/ ExpirePayload \/ UNCHANGED auditVars
  BY <1>1, <1>4 DEF IssuerPublishes, Tick, ExpirePayload, auditVars
<1> QED
  BY <1>2, <1>3, <1>4, ViewsKeepScope DEF AuditNext, Places

(* The browser shows the rows of the contract it is set to, or none: a     *)
(* task of another contract was cancelled when the contract changed, and   *)
(* what a page's result starts is of the contract in the input then        *)
(* (rwa_audit_browser.py, set_scope and _start).                           *)
THEOREM ShowsItsScopeTheorem == AuditSpec => []ShowsItsScope
<1>1. AuditInit => TasksOfScope /\ ShowsItsScope
  BY DEF AuditInit, TasksOfScope, ShowsItsScope, NoTask, NoRows, Tasks
<1> QED
  BY <1>1, TypeCorrect, ScopeStep, PTL DEF AuditSpec
=============================================================================
