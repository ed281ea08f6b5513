---------------------------- MODULE XStocksSync ----------------------------
(***************************************************************************)
(* Resumable xStocks audit collection for one deployment (one chain and    *)
(* contract): XStocksAuditService.refresh run by several background tasks  *)
(* over the staging tables of XStocksSyncRepository and the published      *)
(* tables of XStocksAuditRepository.                                       *)
(*                                                                         *)
(* Every repository call is one SQLite transaction opened with BEGIN       *)
(* IMMEDIATE, hence one action.  Between two calls a task holds a copy of  *)
(* the checkpoint row (XStocksSyncProgress); _check_writer compares its    *)
(* run id and revision with the row before every write.  The user may      *)
(* pause a task at any moment, a database call may fail, the application   *)
(* may crash, and the issuer's pages may change while they are read.       *)
(*                                                                         *)
(* uuid4 run ids are modelled as 1, 2, 3, ...; 0 stands for "no row".      *)
(***************************************************************************)
EXTENDS Naturals

CONSTANTS
  Workers,           \* background tasks refreshing this deployment
  Assets, Symbols,   \* the values of asset_id and symbol in the issuer catalog
  NoIdentity,        \* identity of "no row"
  RecordIds,         \* issuer event id:version, or multiplier change id
  Payloads,          \* distinct contents a record can have
  PageBudget,        \* pages one refresh may read (page_budget)
  MaxPage,           \* BOUND: pages of one issuer feed
  MaxRuns,           \* BOUND: run ids minted
  MaxRevision,       \* BOUND: a run is not resumed beyond this revision
  MaxFaults,         \* BOUND: failures, pauses and crashes
  MaxClock,          \* BOUND: wall clock readings
  ClockMayStepBack   \* may the wall clock be set back between two publications?

ASSUME PageBudgetAssumption == PageBudget \in Nat \ {0}
ASSUME BoundsAssumption ==
  /\ MaxPage \in Nat \ {0} /\ MaxRuns \in Nat /\ MaxRevision \in Nat
  /\ MaxFaults \in Nat /\ MaxClock \in Nat
  /\ ClockMayStepBack \in BOOLEAN
ASSUME IdentityAssumption == NoIdentity \notin [asset : Assets, symbol : Symbols]

Feeds == {"actions", "multipliers"}
FirstPage == [f \in Feeds |-> IF f = "actions" THEN 1 ELSE 0]
Identity == [asset : Assets, symbol : Symbols]
Record == [id : RecordIds, payload : Payloads]
PC == {"idle", "loop", "fetch", "finish", "fail"}

VARIABLES
  row,         \* the row of xstocks_sync_checkpoints
  staged,      \* [Feeds -> SUBSET Record], xstocks_sync_records of that run
  published,   \* the xstocks_audit_deployments row and its record tables
  pc,          \* [Workers -> PC], where each refresh call stands
  held,        \* [Workers -> Checkpoint], the progress each call carries
  budget,      \* [Workers -> Nat], pages the call may still read
  cancel,      \* [Workers -> BOOLEAN], the cancellation event of the call
  runs,        \* run ids minted so far
  faults       \* faults injected so far

vars == <<row, staged, published, pc, held, budget, cancel, runs, faults>>

Checkpoint ==
  [run : Nat, rev : Nat, identity : Identity \cup {NoIdentity},
   state : {"in_progress", "paused", "failed"},
   next : [Feeds -> Nat], done : [Feeds -> BOOLEAN], pages : [Feeds -> Nat]]

NewRow(run, identity) ==
  [run |-> run, rev |-> 0, identity |-> identity, state |-> "in_progress",
   next |-> FirstPage, done |-> [f \in Feeds |-> FALSE], pages |-> [f \in Feeds |-> 0]]

NoRow == NewRow(0, NoIdentity)
Nothing == [f \in Feeds |-> {}]

Agree(R, S) == \A r \in R, s \in S : r.id = s.id => r = s
AllDone(p) == \A f \in Feeds : p.done[f]
CurrentFeed(p) == IF ~p.done["actions"] THEN "actions" ELSE "multipliers"

\* Mutant: the revision is not compared.
IsWriterOfRun(p) == row.run # 0 /\ row.run = p.run

\* _check_writer: the run still exists and nobody has written since.
IsWriter(p) == row.run # 0 /\ row.run = p.run /\ row.rev = p.rev

Init ==
  /\ row = NoRow
  /\ staged = Nothing
  /\ published = [identity |-> NoIdentity, fetchedAt |-> 0, records |-> Nothing]
  /\ pc = [w \in Workers |-> "idle"]
  /\ held = [w \in Workers |-> NoRow]
  /\ budget = [w \in Workers |-> 0]
  /\ cancel = [w \in Workers |-> FALSE]
  /\ runs = 0
  /\ faults = 0

Goto(w, label) == pc' = [pc EXCEPT ![w] = label]
Fault == faults < MaxFaults /\ faults' = faults + 1

\* A call that has returned or raised: nothing of it survives.
Leave(w) ==
  /\ Goto(w, "idle")
  /\ held' = [held EXCEPT ![w] = NoRow]
  /\ budget' = [budget EXCEPT ![w] = 0]
  /\ cancel' = [cancel EXCEPT ![w] = FALSE]

Enter(w, progress) ==
  /\ Goto(w, "loop")
  /\ held' = [held EXCEPT ![w] = progress]
  /\ budget' = [budget EXCEPT ![w] = PageBudget]
  /\ UNCHANGED cancel

-----------------------------------------------------------------------------
(* begin: reuse the pending run, or replace it and its staged records.     *)

\* Mutant: a failed run is not picked up again.
ResumeUnlessFailed(w, identity) ==
  /\ pc[w] = "idle"
  /\ row.run # 0
  /\ row.state # "failed"
  /\ row.identity = identity
  /\ row.rev < MaxRevision
  /\ Enter(w, row)
  /\ UNCHANGED <<row, staged, published, runs, faults>>

Resume(w, identity) ==
  /\ pc[w] = "idle"
  /\ row.run # 0
  /\ row.identity = identity
  /\ row.rev < MaxRevision
  /\ Enter(w, row)
  /\ UNCHANGED <<row, staged, published, runs, faults>>

\* The catalog now names another asset: begin raises before anything is written.
RefuseChangedIdentity(w, identity) ==
  /\ pc[w] = "idle"
  /\ row.run # 0
  /\ row.identity # identity
  /\ Fault
  /\ UNCHANGED <<row, staged, published, pc, held, budget, cancel, runs>>

StartRun(w, identity, restart) ==
  /\ pc[w] = "idle"
  /\ row.run = 0 \/ restart
  /\ runs < MaxRuns
  /\ runs' = runs + 1
  /\ row' = NewRow(runs + 1, identity)
  /\ staged' = Nothing
  /\ Enter(w, row')
  /\ UNCHANGED <<published, faults>>

-----------------------------------------------------------------------------
(* The page loop of refresh.                                               *)

\* Mutant: the page budget is spent but never tested.
CheckLoopWithoutBudget(w) ==
  /\ pc[w] = "loop"
  /\ IF cancel[w] \/ AllDone(held[w])
     THEN Goto(w, "finish") /\ UNCHANGED budget
     ELSE Goto(w, "fetch") /\ budget' = [budget EXCEPT ![w] = @ - 1]
  /\ UNCHANGED <<row, staged, published, held, cancel, runs, faults>>

CheckLoop(w) ==
  /\ pc[w] = "loop"
  /\ IF cancel[w] \/ AllDone(held[w]) \/ budget[w] = 0
     THEN Goto(w, "finish") /\ UNCHANGED budget
     ELSE Goto(w, "fetch") /\ budget' = [budget EXCEPT ![w] = @ - 1]
  /\ UNCHANGED <<row, staged, published, held, cancel, runs, faults>>

\* The issuer's page does not arrive or does not pass validation.
FetchFails(w) ==
  /\ pc[w] = "fetch"
  /\ Fault
  /\ Goto(w, "fail")
  /\ UNCHANGED <<row, staged, published, held, budget, cancel, runs>>

\* The row after a page of feed f; the last page keeps its own number.
Advanced(f, page, last) ==
  [row EXCEPT !.next[f] = IF last THEN page ELSE page + 1,
              !.done[f] = last,
              !.pages[f] = @ + 1,
              !.rev = @ + 1,
              !.state = "in_progress"]

\* The page contradicts neither itself nor a staged record.
PageAgrees(f, R) == Agree(R, R \cup staged[f])

\* stage_page: the records of the page and the advanced checkpoint commit together.
StagePage(w, R, last) ==
  LET p == held[w]
      f == CurrentFeed(p)
  IN /\ pc[w] = "fetch"
     /\ last \/ R # {}
     /\ last \/ p.next[f] + 1 < FirstPage[f] + MaxPage
     /\ IsWriter(p)
     /\ PageAgrees(f, R)
     /\ staged' = [staged EXCEPT ![f] = @ \cup R]
     /\ row' = Advanced(f, p.next[f], last)
     /\ held' = [held EXCEPT ![w] = row']
     /\ Goto(w, "loop")
     /\ UNCHANGED <<published, budget, cancel, runs, faults>>

\* stage_page raises: another task has written, or the page contradicts itself or
\* a staged record.  The transaction rolls back.
RejectStalePage(w) ==
  /\ pc[w] = "fetch"
  /\ ~IsWriter(held[w])
  /\ Goto(w, "fail")
  /\ UNCHANGED <<row, staged, published, held, budget, cancel, runs, faults>>

RejectConflictingPage(w, R) ==
  /\ pc[w] = "fetch"
  /\ IsWriter(held[w])
  /\ ~PageAgrees(CurrentFeed(held[w]), R)
  /\ Fault
  /\ Goto(w, "fail")
  /\ UNCHANGED <<row, staged, published, held, budget, cancel, runs>>

-----------------------------------------------------------------------------
(* The end of refresh: publish, pause, or record the failure.              *)

\* Mutant: one finished feed is enough.
WantsAnyPublication(w) == ~cancel[w] /\ \E f \in Feeds : held[w].done[f]

WantsPublication(w) == ~cancel[w] /\ AllDone(held[w])

\* The outcomes of _save_history.
AssetAccepted(p) ==
  published.identity # NoIdentity => published.identity.asset = p.identity.asset
NewerPublished(now) == published.identity # NoIdentity /\ published.fetchedAt > now

RecordsAccepted == \A f \in Feeds : Agree(staged[f], published.records[f])

\* Mutant: the staged records replace the published ones.
ReplacedHistory(now) ==
  [identity |-> row.identity, fetchedAt |-> now, records |-> staged]

SavedHistory(now) ==
  IF NewerPublished(now)
  THEN published
  ELSE [identity |-> row.identity, fetchedAt |-> now,
        records |-> [f \in Feeds |-> published.records[f] \cup staged[f]]]

\* The readings of the wall clock, in order of time unless it may be set back.
Now == {t \in 0..MaxClock : ClockMayStepBack \/ published.fetchedAt <= t}

Publish(w, now) ==
  /\ pc[w] = "finish"
  /\ WantsPublication(w)
  /\ IsWriter(held[w])
  /\ AssetAccepted(held[w])
  /\ NewerPublished(now) \/ RecordsAccepted
  /\ published' = SavedHistory(now)
  /\ row' = NoRow
  /\ staged' = Nothing
  /\ Leave(w)
  /\ UNCHANGED <<runs, faults>>

PublishFails(w, now) ==
  /\ pc[w] = "finish"
  /\ WantsPublication(w)
  /\ \/ ~IsWriter(held[w])
     \/ ~AssetAccepted(held[w])
     \/ ~NewerPublished(now) /\ ~RecordsAccepted
  /\ Goto(w, "fail")
  /\ UNCHANGED <<row, staged, published, held, budget, cancel, runs, faults>>

Marked(state) == [row EXCEPT !.state = state, !.rev = @ + 1]

Pause(w) ==
  /\ pc[w] = "finish"
  /\ ~WantsPublication(w)
  /\ IF IsWriter(held[w])
     THEN row' = Marked("paused") /\ Leave(w)
     ELSE Goto(w, "fail") /\ UNCHANGED <<row, held, budget, cancel>>
  /\ UNCHANGED <<staged, published, runs, faults>>

\* Mutant: a stale writer tries again instead of giving up.
RecordFailureOrRetry(w) ==
  /\ pc[w] = "fail"
  /\ IF IsWriter(held[w])
     THEN row' = Marked("failed") /\ Leave(w)
     ELSE Goto(w, "finish") /\ UNCHANGED <<row, held, budget, cancel>>
  /\ UNCHANGED <<staged, published, runs, faults>>

\* A stale writer's set_state raises ValueError, which refresh suppresses.
RecordFailure(w) ==
  /\ pc[w] = "fail"
  /\ row' = IF IsWriter(held[w]) THEN Marked("failed") ELSE row
  /\ Leave(w)
  /\ UNCHANGED <<staged, published, runs, faults>>

-----------------------------------------------------------------------------
(* The environment.                                                        *)

\* "Pause Sync", or the browser moving to another deployment.
RequestPause(w) ==
  /\ pc[w] # "idle"
  /\ ~cancel[w]
  /\ Fault
  /\ cancel' = [cancel EXCEPT ![w] = TRUE]
  /\ UNCHANGED <<row, staged, published, pc, held, budget, runs>>

\* sqlite3 errors roll the transaction back and are not caught by refresh.
DatabaseError(w) ==
  /\ pc[w] \in {"fetch", "finish", "fail"}
  /\ Fault
  /\ Leave(w)
  /\ UNCHANGED <<row, staged, published, runs>>

Crash ==
  /\ \E w \in Workers : pc[w] # "idle"
  /\ Fault
  /\ pc' = [w \in Workers |-> "idle"]
  /\ held' = [w \in Workers |-> NoRow]
  /\ budget' = [w \in Workers |-> 0]
  /\ cancel' = [w \in Workers |-> FALSE]
  /\ UNCHANGED <<row, staged, published, runs>>

Step(w) ==
  \/ CheckLoop(w) \/ FetchFails(w) \/ RejectStalePage(w)
  \/ \E R \in SUBSET Record :
       \/ \E last \in BOOLEAN : StagePage(w, R, last)
       \/ RejectConflictingPage(w, R)
  \/ \E now \in Now : Publish(w, now) \/ PublishFails(w, now)
  \/ Pause(w) \/ RecordFailure(w)
  \/ DatabaseError(w)

Next ==
  \/ \E w \in Workers :
       \/ Step(w)
       \/ RequestPause(w)
       \/ \E identity \in Identity :
            \/ Resume(w, identity)
            \/ RefuseChangedIdentity(w, identity)
            \/ \E restart \in BOOLEAN : StartRun(w, identity, restart)
  \/ Crash

Spec == Init /\ [][Next]_vars

\* The calls run to their end (every network and database call returns or times
\* out), and the user keeps resuming a pending sync.
Fairness ==
  /\ \A w \in Workers : WF_vars(Step(w))
  /\ \A w \in Workers : WF_vars(\E identity \in Identity : Resume(w, identity))

FairSpec == Spec /\ Fairness

-----------------------------------------------------------------------------
(* Properties.                                                             *)

Published ==
  [identity : Identity \cup {NoIdentity}, fetchedAt : Nat, records : [Feeds -> SUBSET Record]]

\* Types of all variables.
TypeOK ==
  /\ row \in Checkpoint
  /\ staged \in [Feeds -> SUBSET Record]
  /\ published \in Published
  /\ pc \in [Workers -> PC]
  /\ held \in [Workers -> Checkpoint]
  /\ budget \in [Workers -> Nat]
  /\ cancel \in [Workers -> BOOLEAN]
  /\ runs \in Nat
  /\ faults \in Nat

\* A task whose run id and revision still match holds the very row that is stored:
\* stage_page checks its page against the copy, so the copy must not be older.
FreshProgress ==
  \A w \in Workers : pc[w] # "idle" /\ IsWriter(held[w]) => held[w] = row

\* However many tasks and restarts took part, the pages committed to a run are
\* consecutive from the first one, each counted once: the resume point skips and
\* repeats nothing.
PagesInSequence ==
  \A f \in Feeds :
    row.next[f] + (IF row.done[f] THEN 1 ELSE 0) = FirstPage[f] + row.pages[f]

\* Staged records belong to a pending run and never contradict one another.
StagingConsistent ==
  /\ row.run = 0 => staged = Nothing
  /\ \A f \in Feeds : Agree(staged[f], staged[f])

\* The inductive invariant behind the properties below: copies are never newer than
\* the row, run ids are fresh, and a task that fetches has an unfinished feed.
HeldIsPast ==
  \A w \in Workers :
    row.run # 0 /\ held[w].run = row.run => held[w].rev < row.rev \/ held[w] = row

RunsAreFresh == row.run <= runs /\ \A w \in Workers : held[w].run <= runs

FetchHasFeed == \A w \in Workers : pc[w] = "fetch" => ~AllDone(held[w])

PublishedConsistent == \A f \in Feeds : Agree(published.records[f], published.records[f])

IInv ==
  /\ TypeOK
  /\ HeldIsPast
  /\ RunsAreFresh
  /\ FetchHasFeed
  /\ PagesInSequence
  /\ StagingConsistent
  /\ PublishedConsistent

\* Published records are never lost or rewritten, whatever the issuer serves later,
\* and the asset of a published deployment never changes.
HistoryNeverRewritten ==
  [][/\ \A f \in Feeds :
          /\ published.records[f] \subseteq published'.records[f]
          /\ Agree(published'.records[f], published'.records[f])
     /\ published.identity # NoIdentity =>
          published'.identity.asset = published.identity.asset]_vars

\* Publication and the removal of a checkpoint are one step, taken only when both
\* feeds have ended, and that step publishes every staged record.
CompletedRunIsPublished ==
  [][published' # published \/ (row.run # 0 /\ row'.run = 0) =>
       /\ row.run # 0 /\ row'.run = 0
       /\ AllDone(row)
       /\ \A f \in Feeds : published'.records[f] = published.records[f] \cup staged[f]]_vars

\* A revision is written by one task only: a write that keeps the run id raises the
\* revision by exactly one and comes from a task holding the row.
OneWriterPerRevision ==
  [][row' # row /\ row'.run = row.run =>
       /\ row'.rev = row.rev + 1
       /\ \E w \in Workers : pc[w] # "idle" /\ held[w] = row]_vars

\* Every refresh call returns.
RefreshReturns ==
  \A w \in Workers : (pc[w] # "idle") ~> (pc[w] = "idle")

\* The pending run can never be published: the issuer contradicts published history.
Contradicted ==
  /\ row.run # 0
  /\ \/ ~AssetAccepted(row)
     \/ ~RecordsAccepted

\* While the user keeps resuming and the issuer contradicts nothing published, a
\* pending sync ends in a publication once the faults stop.
SyncCompletes ==
  []~Contradicted => ((row.run # 0) ~> (row.run = 0))

\* The tables implement the abstract history.
History ==
  INSTANCE XStocksHistory
    WITH history <- published.records, open <- (row.run # 0),
         gathered <- staged, ended <- row.done

\* Every step of the tables is a step of the abstract history, or none.
ImplementsHistory == History!Spec
=============================================================================
