------------------------- MODULE XStocksSyncProofs -------------------------
(***************************************************************************)
(* Proofs about XStocksSync for every number of tasks, pages, runs and     *)
(* faults.  The inductive invariant IInv adds to the checked invariants    *)
(* the two facts they rest on: a copy of the checkpoint is never newer     *)
(* than the row (HeldIsPast), and a task that fetches has an unfinished    *)
(* feed (FetchHasFeed).  The last part is about XStocksBrowser, and what a *)
(* load of the audit browser may rely on.                                  *)
(***************************************************************************)
EXTENDS XStocksBrowser, TLAPS

USE PageBudgetAssumption, BoundsAssumption

-----------------------------------------------------------------------------
(* Type correctness.                                                       *)

LEMMA NoRowType == NoRow \in Checkpoint
BY SMT DEF NoRow, NewRow, Checkpoint, FirstPage, Feeds

LEMMA NewRowType ==
  ASSUME NEW run \in Nat, NEW identity \in Identity
  PROVE NewRow(run, identity) \in Checkpoint
BY SMT DEF NewRow, Checkpoint, FirstPage, Feeds

LEMMA CurrentFeedType ==
  ASSUME NEW p PROVE CurrentFeed(p) \in Feeds
BY DEF CurrentFeed, Feeds

LEMMA AdvancedType ==
  ASSUME row \in Checkpoint, NEW f \in Feeds, NEW page \in Nat, NEW last \in BOOLEAN
  PROVE Advanced(f, page, last) \in Checkpoint
<1> DEFINE r1 == [row EXCEPT !.next[f] = IF last THEN page ELSE page + 1]
           r2 == [r1 EXCEPT !.done[f] = last]
           r3 == [r2 EXCEPT !.pages[f] = row.pages[f] + 1]
           r4 == [r3 EXCEPT !.rev = row.rev + 1]
<1>1. Advanced(f, page, last) = [r4 EXCEPT !.state = "in_progress"]
  BY DEF Advanced
<1>2. r1 \in Checkpoint BY DEF Checkpoint
<1>3. row.pages[f] + 1 \in Nat /\ row.rev + 1 \in Nat BY DEF Checkpoint
<1> HIDE DEF r1
<1>4. r2 \in Checkpoint BY <1>2 DEF Checkpoint
<1> HIDE DEF r2
<1>5. r3 \in Checkpoint BY <1>3, <1>4 DEF Checkpoint
<1> HIDE DEF r3
<1>6. r4 \in Checkpoint BY <1>3, <1>5 DEF Checkpoint
<1> HIDE DEF r4
<1>7. QED BY <1>1, <1>6 DEF Checkpoint

LEMMA MarkedType ==
  ASSUME row \in Checkpoint, NEW state \in {"paused", "failed"}
  PROVE Marked(state) \in Checkpoint
<1> DEFINE r == [row EXCEPT !.state = state]
<1>1. Marked(state) = [r EXCEPT !.rev = row.rev + 1] BY DEF Marked
<1>2. r \in Checkpoint BY DEF Checkpoint
<1>3. row.rev + 1 \in Nat BY DEF Checkpoint
<1> HIDE DEF r
<1>4. QED BY <1>1, <1>2, <1>3 DEF Checkpoint

LEMMA EnterType ==
  ASSUME TypeOK, NEW w \in Workers, NEW p \in Checkpoint, Enter(w, p)
  PROVE /\ pc' \in [Workers -> PC] /\ held' \in [Workers -> Checkpoint]
        /\ budget' \in [Workers -> Nat] /\ cancel' \in [Workers -> BOOLEAN]
BY DEF TypeOK, Enter, Goto, PC

LEMMA LeaveType ==
  ASSUME TypeOK, NEW w \in Workers, Leave(w)
  PROVE /\ pc' \in [Workers -> PC] /\ held' \in [Workers -> Checkpoint]
        /\ budget' \in [Workers -> Nat] /\ cancel' \in [Workers -> BOOLEAN]
BY NoRowType DEF TypeOK, Leave, Goto, PC

LEMMA SavedHistoryType ==
  ASSUME TypeOK, NEW now \in Now PROVE SavedHistory(now) \in Published
<1>1. now \in Nat BY DEF Now
<1>2. [f \in Feeds |-> published.records[f] \cup staged[f]] \in [Feeds -> SUBSET Record]
  BY DEF TypeOK, Published
<1>3. QED BY <1>1, <1>2 DEF SavedHistory, TypeOK, Published, Checkpoint

LEMMA TypeInit == Init => TypeOK
BY NoRowType DEF Init, TypeOK, Published, Nothing, PC

LEMMA TypeStep == TypeOK /\ [Next]_vars => TypeOK'
<1> SUFFICES ASSUME TypeOK, [Next]_vars PROVE TypeOK'
  OBVIOUS
<1>1. ASSUME NEW w \in Workers, NEW identity \in Identity, Resume(w, identity) PROVE TypeOK'
  <2>1. Enter(w, row) BY <1>1 DEF Resume
  <2>2. QED BY <1>1, <2>1, EnterType DEF TypeOK, Resume
<1>2. ASSUME NEW w \in Workers, NEW identity \in Identity, RefuseChangedIdentity(w, identity)
      PROVE TypeOK'
  BY <1>2 DEF TypeOK, RefuseChangedIdentity, Fault
<1>3. ASSUME NEW w \in Workers, NEW identity \in Identity, NEW restart \in BOOLEAN,
             StartRun(w, identity, restart)
      PROVE TypeOK'
  <2>1. row' \in Checkpoint BY <1>3, NewRowType DEF StartRun, TypeOK
  <2>2. Enter(w, row') BY <1>3 DEF StartRun
  <2>3. QED BY <1>3, <2>1, <2>2, EnterType DEF TypeOK, StartRun, Nothing
<1>4. ASSUME NEW w \in Workers, CheckLoop(w) PROVE TypeOK'
  <2>1. pc' \in [Workers -> PC] BY <1>4 DEF TypeOK, CheckLoop, Goto, PC
  <2>2. budget' \in [Workers -> Nat] BY <1>4 DEF TypeOK, CheckLoop
  <2>3. QED BY <1>4, <2>1, <2>2 DEF TypeOK, CheckLoop
<1>5. ASSUME NEW w \in Workers, FetchFails(w) PROVE TypeOK'
  BY <1>5 DEF TypeOK, FetchFails, Goto, Fault, PC
<1>6. ASSUME NEW w \in Workers, NEW R \in SUBSET Record, NEW last \in BOOLEAN,
             StagePage(w, R, last)
      PROVE TypeOK'
  <2> DEFINE f == CurrentFeed(held[w])
  <2>1. f \in Feeds BY CurrentFeedType
  <2>2. held[w].next[f] \in Nat BY <2>1 DEF TypeOK, Checkpoint
  <2>3. row' \in Checkpoint BY <1>6, <2>1, <2>2, AdvancedType DEF StagePage, TypeOK
  <2>4. staged' \in [Feeds -> SUBSET Record] BY <1>6, <2>1 DEF StagePage, TypeOK
  <2>5. pc' \in [Workers -> PC] BY <1>6 DEF TypeOK, StagePage, Goto, PC
  <2>6. held' \in [Workers -> Checkpoint] BY <1>6, <2>3 DEF TypeOK, StagePage
  <2>7. QED BY <1>6, <2>3, <2>4, <2>5, <2>6 DEF TypeOK, StagePage
<1>7. ASSUME NEW w \in Workers, RejectStalePage(w) PROVE TypeOK'
  BY <1>7 DEF TypeOK, RejectStalePage, Goto, PC
<1>8. ASSUME NEW w \in Workers, NEW R \in SUBSET Record, RejectConflictingPage(w, R)
      PROVE TypeOK'
  BY <1>8 DEF TypeOK, RejectConflictingPage, Goto, Fault, PC
<1>9. ASSUME NEW w \in Workers, NEW now \in Now, Publish(w, now) PROVE TypeOK'
  <2>1. Leave(w) BY <1>9 DEF Publish
  <2>2. published' \in Published BY <1>9, SavedHistoryType DEF Publish
  <2>3. QED BY <1>9, <2>1, <2>2, LeaveType, NoRowType DEF TypeOK, Publish, Nothing
<1>10. ASSUME NEW w \in Workers, NEW now \in Now, PublishFails(w, now) PROVE TypeOK'
  BY <1>10 DEF TypeOK, PublishFails, Goto, PC
<1>11. ASSUME NEW w \in Workers, Pause(w) PROVE TypeOK'
  <2>1. CASE IsWriter(held[w])
    <3>1. Leave(w) /\ row' = Marked("paused") BY <1>11, <2>1 DEF Pause
    <3>2. row' \in Checkpoint BY <3>1, MarkedType DEF TypeOK
    <3>3. QED BY <1>11, <3>1, <3>2, LeaveType DEF TypeOK, Pause
  <2>2. CASE ~IsWriter(held[w])
    BY <1>11, <2>2 DEF TypeOK, Pause, Goto, PC
  <2>3. QED BY <2>1, <2>2
<1>12. ASSUME NEW w \in Workers, RecordFailure(w) PROVE TypeOK'
  <2>1. Leave(w) BY <1>12 DEF RecordFailure
  <2>2. row' \in Checkpoint BY <1>12, MarkedType DEF RecordFailure, TypeOK
  <2>3. QED BY <1>12, <2>1, <2>2, LeaveType DEF TypeOK, RecordFailure
<1>13. ASSUME NEW w \in Workers, RequestPause(w) PROVE TypeOK'
  BY <1>13 DEF TypeOK, RequestPause, Fault
<1>14. ASSUME NEW w \in Workers, DatabaseError(w) PROVE TypeOK'
  <2>1. Leave(w) BY <1>14 DEF DatabaseError
  <2>2. QED BY <1>14, <2>1, LeaveType DEF TypeOK, DatabaseError, Fault
<1>15. ASSUME Crash PROVE TypeOK'
  BY <1>15, NoRowType DEF TypeOK, Crash, Fault, PC
<1>16. CASE UNCHANGED vars
  BY <1>16 DEF TypeOK, vars
<1>17. QED
  BY <1>1, <1>2, <1>3, <1>4, <1>5, <1>6, <1>7, <1>8, <1>9, <1>10, <1>11, <1>12,
     <1>13, <1>14, <1>15, <1>16 DEF Next, Step

\* Every variable keeps its type, whatever the tasks, the user and the faults do.
THEOREM TypeCorrect == Spec => []TypeOK
BY TypeInit, TypeStep, PTL DEF Spec

-----------------------------------------------------------------------------
(* What a write does to the row, and what a writer holds.                  *)

LEMMA MarkedFields ==
  ASSUME row \in Checkpoint, NEW state
  PROVE /\ Marked(state).run = row.run
        /\ Marked(state).rev = row.rev + 1
        /\ Marked(state).identity = row.identity
        /\ Marked(state).next = row.next
        /\ Marked(state).done = row.done
        /\ Marked(state).pages = row.pages
BY DEF Marked, Checkpoint

LEMMA AdvancedFields ==
  ASSUME row \in Checkpoint, NEW f \in Feeds, NEW page \in Nat, NEW last \in BOOLEAN
  PROVE /\ Advanced(f, page, last).run = row.run
        /\ Advanced(f, page, last).rev = row.rev + 1
        /\ Advanced(f, page, last).identity = row.identity
        /\ Advanced(f, page, last).next = [row.next EXCEPT ![f] = IF last THEN page ELSE page + 1]
        /\ Advanced(f, page, last).done = [row.done EXCEPT ![f] = last]
        /\ Advanced(f, page, last).pages = [row.pages EXCEPT ![f] = row.pages[f] + 1]
BY DEF Advanced, Checkpoint

LEMMA NewRowFields ==
  ASSUME NEW run, NEW identity
  PROVE /\ NewRow(run, identity).run = run
        /\ NewRow(run, identity).rev = 0
        /\ NewRow(run, identity).identity = identity
        /\ NewRow(run, identity).next = FirstPage
        /\ NewRow(run, identity).done = [f \in Feeds |-> FALSE]
        /\ NewRow(run, identity).pages = [f \in Feeds |-> 0]
BY DEF NewRow

LEMMA NoRowFields ==
  /\ NoRow.run = 0
  /\ NoRow.next = FirstPage
  /\ NoRow.done = [f \in Feeds |-> FALSE]
  /\ NoRow.pages = [f \in Feeds |-> 0]
BY DEF NoRow, NewRow

LEMMA WriterHoldsRow ==
  ASSUME TypeOK, HeldIsPast, NEW w \in Workers, IsWriter(held[w])
  PROVE held[w] = row
BY DEF TypeOK, HeldIsPast, IsWriter, Checkpoint

LEMMA UnfinishedFeed ==
  ASSUME NEW p \in Checkpoint, ~AllDone(p)
  PROVE CurrentFeed(p) \in Feeds /\ p.done[CurrentFeed(p)] = FALSE
BY DEF AllDone, CurrentFeed, Feeds, Checkpoint

LEMMA LeaveHeld ==
  ASSUME TypeOK, NEW w \in Workers, Leave(w)
  PROVE /\ pc' = [pc EXCEPT ![w] = "idle"]
        /\ held' = [held EXCEPT ![w] = NoRow]
        /\ NoRow.run = 0
BY NewRowFields DEF Leave, Goto, NoRow

-----------------------------------------------------------------------------
(* The inductive invariant.                                                *)

LEMMA IInit == Init => IInv
<1> SUFFICES ASSUME Init PROVE IInv
  OBVIOUS
<1>1. TypeOK BY TypeInit
<1>2. /\ row.run = 0 /\ row.next = FirstPage /\ row.done = [f \in Feeds |-> FALSE]
      /\ row.pages = [f \in Feeds |-> 0]
      /\ \A w \in Workers : held[w].run = 0
  <2>1. row = NoRow /\ \A w \in Workers : held[w] = NoRow
    BY DEF Init
  <2> QED BY <2>1, NoRowFields
<1>3. HeldIsPast /\ RunsAreFresh BY <1>2 DEF HeldIsPast, RunsAreFresh, Init
<1>4. FetchHasFeed BY DEF FetchHasFeed, Init
<1>5. PagesInSequence BY <1>2 DEF PagesInSequence, FirstPage, Feeds
<1>6. StagingConsistent BY DEF StagingConsistent, Init, Nothing, Agree
<1>7. PublishedConsistent BY DEF PublishedConsistent, Init, Nothing, Agree
<1>8. QED BY <1>1, <1>3, <1>4, <1>5, <1>6, <1>7 DEF IInv

LEMMA IStep == IInv /\ [Next]_vars => IInv'
<1> SUFFICES ASSUME IInv, [Next]_vars PROVE IInv'
  OBVIOUS
<1> USE DEF IInv
<1>0. TypeOK /\ TypeOK' BY TypeStep
<1>1. ASSUME NEW w \in Workers, NEW identity \in Identity, Resume(w, identity) PROVE IInv'
  <2>1. /\ pc' = [pc EXCEPT ![w] = "loop"] /\ held' = [held EXCEPT ![w] = row]
        /\ UNCHANGED <<row, staged, published, runs>>
    BY <1>1 DEF Resume, Enter, Goto
  <2>2. HeldIsPast' BY <1>0, <2>1 DEF TypeOK, HeldIsPast
  <2>3. RunsAreFresh' BY <1>0, <2>1 DEF TypeOK, RunsAreFresh
  <2>4. FetchHasFeed' BY <1>0, <2>1 DEF TypeOK, FetchHasFeed
  <2>5. (PagesInSequence /\ StagingConsistent /\ PublishedConsistent)'
    BY <2>1 DEF PagesInSequence, StagingConsistent, PublishedConsistent
  <2>6. QED BY <1>0, <2>2, <2>3, <2>4, <2>5
<1>2. ASSUME NEW w \in Workers, NEW identity \in Identity, NEW restart \in BOOLEAN,
             StartRun(w, identity, restart)
      PROVE IInv'
  <2>1. /\ pc' = [pc EXCEPT ![w] = "loop"] /\ held' = [held EXCEPT ![w] = row']
        /\ runs' = runs + 1 /\ staged' = Nothing /\ UNCHANGED published
        /\ row' = NewRow(runs + 1, identity)
    BY <1>2 DEF StartRun, Enter, Goto
  <2>2. /\ row'.run = runs + 1 /\ row'.next = FirstPage
        /\ row'.done = [f \in Feeds |-> FALSE] /\ row'.pages = [f \in Feeds |-> 0]
    <3>1. row' = NewRow(runs + 1, identity) BY <2>1
    <3> QED BY <3>1, Zenon DEF NewRow
  <2>3. \A v \in Workers : held[v].run < runs + 1
    BY <1>0 DEF TypeOK, RunsAreFresh, Checkpoint
  <2>4. HeldIsPast' BY <1>0, <2>1, <2>2, <2>3 DEF TypeOK, HeldIsPast, Checkpoint
  <2>5. RunsAreFresh' BY <1>0, <2>1, <2>2, <2>3 DEF TypeOK, RunsAreFresh, Checkpoint
  <2>6. FetchHasFeed' BY <1>0, <2>1 DEF TypeOK, FetchHasFeed
  <2>7. PagesInSequence' BY <2>2 DEF PagesInSequence, FirstPage, Feeds
  <2>8. StagingConsistent' BY <2>1 DEF StagingConsistent, Nothing, Agree
  <2>9. PublishedConsistent' BY <2>1 DEF PublishedConsistent
  <2>10. QED BY <1>0, <2>4, <2>5, <2>6, <2>7, <2>8, <2>9
<1>3. ASSUME NEW w \in Workers, CheckLoop(w) PROVE IInv'
  <2>1. FetchHasFeed' BY <1>0, <1>3 DEF TypeOK, FetchHasFeed, CheckLoop, Goto
  <2>2. HeldIsPast' /\ RunsAreFresh' BY <1>3 DEF CheckLoop, HeldIsPast, RunsAreFresh
  <2>3. (PagesInSequence /\ StagingConsistent /\ PublishedConsistent)'
    BY <1>3 DEF CheckLoop, PagesInSequence, StagingConsistent, PublishedConsistent
  <2>4. QED BY <1>0, <2>1, <2>2, <2>3
<1>4. ASSUME NEW w \in Workers, NEW R \in SUBSET Record, NEW last \in BOOLEAN,
             StagePage(w, R, last)
      PROVE IInv'
  <2> DEFINE f == CurrentFeed(held[w])
             page == held[w].next[f]
  <2>1. IsWriter(held[w]) /\ pc[w] = "fetch" BY <1>4 DEF StagePage
  <2>2. held[w] = row /\ row.run # 0 BY <1>0, <2>1, WriterHoldsRow DEF IsWriter
  <2>3. f \in Feeds /\ row.done[f] = FALSE
    BY <1>0, <2>1, <2>2, UnfinishedFeed DEF FetchHasFeed, TypeOK
  <2>4. page = row.next[f] /\ page \in Nat BY <1>0, <2>2, <2>3 DEF TypeOK, Checkpoint
  <2>5. /\ pc' = [pc EXCEPT ![w] = "loop"] /\ held' = [held EXCEPT ![w] = row']
        /\ row' = Advanced(f, page, last)
        /\ staged' = [staged EXCEPT ![f] = @ \cup R] /\ PageAgrees(f, R)
        /\ UNCHANGED <<published, runs>>
    BY <1>4 DEF StagePage, Goto
  <2> HIDE DEF f, page
  <2>6. /\ row'.run = row.run /\ row'.rev = row.rev + 1
        /\ row'.next = [row.next EXCEPT ![f] = IF last THEN page ELSE page + 1]
        /\ row'.done = [row.done EXCEPT ![f] = last]
        /\ row'.pages = [row.pages EXCEPT ![f] = row.pages[f] + 1]
    <3>1. row \in Checkpoint BY <1>0 DEF TypeOK
    <3>2. last \in BOOLEAN OBVIOUS
    <3>3. QED BY <2>3, <2>4, <2>5, <3>1, <3>2, AdvancedFields
  <2>7. HeldIsPast'
    <3> SUFFICES ASSUME NEW v \in Workers, held'[v].run = row'.run
                 PROVE held'[v].rev < row'.rev \/ held'[v] = row'
      BY DEF HeldIsPast
    <3>1. CASE v = w BY <1>0, <2>5, <3>1 DEF TypeOK
    <3>2. CASE v # w
      <4>1. held'[v] = held[v] BY <1>0, <2>5, <3>2 DEF TypeOK
      <4>2. held[v].rev < row.rev \/ held[v] = row BY <2>2, <2>6, <4>1 DEF HeldIsPast
      <4>3. held[v].rev \in Nat /\ row.rev \in Nat BY <1>0 DEF TypeOK, Checkpoint
      <4>4. QED BY <2>6, <4>1, <4>2, <4>3
    <3>3. QED BY <3>1, <3>2
  <2>8. RunsAreFresh' BY <1>0, <2>5, <2>6 DEF TypeOK, RunsAreFresh
  <2>9. FetchHasFeed' BY <1>0, <2>5 DEF TypeOK, FetchHasFeed
  <2>10. PagesInSequence'
    <3> SUFFICES ASSUME NEW g \in Feeds
                 PROVE row'.next[g] + (IF row'.done[g] THEN 1 ELSE 0)
                         = FirstPage[g] + row'.pages[g]
      BY DEF PagesInSequence
    <3>1. row.next[g] + (IF row.done[g] THEN 1 ELSE 0) = FirstPage[g] + row.pages[g]
      BY DEF PagesInSequence
    <3>2. /\ row.next \in [Feeds -> Nat] /\ row.pages \in [Feeds -> Nat]
          /\ row.done \in [Feeds -> BOOLEAN] /\ FirstPage[g] \in Nat
      BY <1>0 DEF TypeOK, Checkpoint, FirstPage
    <3>3. CASE g = f BY <2>3, <2>4, <2>6, <3>1, <3>2, <3>3
    <3>4. CASE g # f BY <2>6, <3>1, <3>2, <3>4
    <3>5. QED BY <3>3, <3>4
  <2>11. StagingConsistent'
    <3>1. \A g \in Feeds : Agree(staged'[g], staged'[g])
      <4> SUFFICES ASSUME NEW g \in Feeds PROVE Agree(staged'[g], staged'[g])
        OBVIOUS
      <4>1. Agree(staged[g], staged[g]) BY DEF StagingConsistent
      <4>2. CASE g = f
        <5>1. staged'[g] = staged[g] \cup R BY <1>0, <2>5, <4>2 DEF TypeOK
        <5>2. Agree(R, R \cup staged[g]) BY <2>5, <4>2 DEF PageAgrees
        <5>3. QED BY <4>1, <5>1, <5>2 DEF Agree
      <4>3. CASE g # f BY <1>0, <2>5, <4>1, <4>3 DEF TypeOK
      <4>4. QED BY <4>2, <4>3
    <3>2. QED BY <2>2, <2>6, <3>1 DEF StagingConsistent
  <2>12. PublishedConsistent' BY <2>5 DEF PublishedConsistent
  <2>13. QED BY <1>0, <2>7, <2>8, <2>9, <2>10, <2>11, <2>12
<1>5. ASSUME NEW w \in Workers, NEW now \in Now, Publish(w, now) PROVE IInv'
  <2>1. /\ pc' = [pc EXCEPT ![w] = "idle"] /\ held' = [held EXCEPT ![w] = NoRow]
        /\ NoRow.run = 0 /\ row' = NoRow /\ staged' = Nothing
        /\ published' = SavedHistory(now) /\ UNCHANGED runs
    BY <1>0, <1>5, LeaveHeld DEF Publish
  <2>2. HeldIsPast' BY <2>1 DEF HeldIsPast
  <2>3. RunsAreFresh' BY <1>0, <2>1 DEF TypeOK, RunsAreFresh
  <2>4. FetchHasFeed' BY <1>0, <2>1 DEF TypeOK, FetchHasFeed
  <2>5. PagesInSequence'
    <3>1. /\ row'.next = FirstPage /\ row'.done = [f \in Feeds |-> FALSE]
          /\ row'.pages = [f \in Feeds |-> 0]
      BY <2>1, NoRowFields
    <3>2. QED BY <3>1 DEF PagesInSequence, FirstPage, Feeds
  <2>6. StagingConsistent' BY <2>1 DEF StagingConsistent, Nothing, Agree
  <2>7. PublishedConsistent'
    <3>1. CASE NewerPublished(now)
      BY <2>1, <3>1 DEF SavedHistory, PublishedConsistent
    <3>2. CASE ~NewerPublished(now)
      <4>1. \A f \in Feeds : /\ published'.records[f] = published.records[f] \cup staged[f]
                            /\ Agree(staged[f], published.records[f])
                            /\ Agree(staged[f], staged[f])
                            /\ Agree(published.records[f], published.records[f])
        BY <1>5, <2>1, <3>2
           DEF SavedHistory, Publish, RecordsAccepted, StagingConsistent, PublishedConsistent
      <4>2. QED BY <4>1 DEF PublishedConsistent, Agree
    <3>3. QED BY <3>1, <3>2
  <2>8. QED BY <1>0, <2>2, <2>3, <2>4, <2>5, <2>6, <2>7
<1>6. ASSUME NEW w \in Workers, Pause(w) \/ RecordFailure(w) \/ DatabaseError(w),
             UNCHANGED row
      PROVE IInv'
  <2>1. UNCHANGED <<staged, published, runs>>
    BY <1>6 DEF Pause, RecordFailure, DatabaseError
  <2>2. \A v \in Workers : held'[v] = held[v] \/ held'[v].run = 0
    BY <1>0, <1>6, LeaveHeld DEF Pause, RecordFailure, DatabaseError, TypeOK
  <2>3. \A v \in Workers : pc'[v] # "fetch" \/ (pc'[v] = pc[v] /\ held'[v] = held[v])
    <3>1. CASE Leave(w) BY <1>0, <3>1, LeaveHeld DEF TypeOK
    <3>2. CASE Goto(w, "fail") /\ UNCHANGED held BY <1>0, <3>2 DEF TypeOK, Goto
    <3>3. QED BY <1>6, <3>1, <3>2 DEF Pause, RecordFailure, DatabaseError
  <2>4. HeldIsPast' BY <1>6, <2>2 DEF HeldIsPast
  <2>5. RunsAreFresh' BY <1>0, <1>6, <2>1, <2>2 DEF TypeOK, RunsAreFresh
  <2>6. FetchHasFeed' BY <2>3 DEF FetchHasFeed
  <2>7. (PagesInSequence /\ StagingConsistent /\ PublishedConsistent)'
    BY <1>6, <2>1 DEF PagesInSequence, StagingConsistent, PublishedConsistent
  <2>8. QED BY <1>0, <2>4, <2>5, <2>6, <2>7
<1>7. ASSUME NEW w \in Workers, NEW state \in {"paused", "failed"},
             IsWriter(held[w]), row' = Marked(state), Leave(w),
             UNCHANGED <<staged, published, runs>>
      PROVE IInv'
  <2>1. /\ row'.run = row.run /\ row'.rev = row.rev + 1 /\ row'.next = row.next
        /\ row'.done = row.done /\ row'.pages = row.pages /\ row.run # 0
    BY <1>0, <1>7, MarkedFields DEF TypeOK, IsWriter
  <2>2. /\ pc' = [pc EXCEPT ![w] = "idle"] /\ held' = [held EXCEPT ![w] = NoRow]
        /\ NoRow.run = 0
    BY <1>0, <1>7, LeaveHeld
  <2>3. HeldIsPast'
    <3> SUFFICES ASSUME NEW v \in Workers, held'[v].run = row'.run
                 PROVE held'[v].rev < row'.rev
      BY DEF HeldIsPast
    <3>1. v # w /\ held'[v] = held[v] BY <1>0, <2>1, <2>2 DEF TypeOK
    <3>2. held[v].rev < row.rev \/ held[v] = row BY <2>1, <3>1 DEF HeldIsPast
    <3>3. held[v].rev \in Nat /\ row.rev \in Nat BY <1>0 DEF TypeOK, Checkpoint
    <3>4. QED BY <2>1, <3>1, <3>2, <3>3
  <2>4. RunsAreFresh' BY <1>0, <1>7, <2>1, <2>2 DEF TypeOK, RunsAreFresh
  <2>5. FetchHasFeed' BY <1>0, <2>2 DEF TypeOK, FetchHasFeed
  <2>6. PagesInSequence' BY <2>1 DEF PagesInSequence
  <2>7. (StagingConsistent /\ PublishedConsistent)'
    BY <1>7, <2>1 DEF StagingConsistent, PublishedConsistent
  <2>8. QED BY <1>0, <2>3, <2>4, <2>5, <2>6, <2>7
<1>8. ASSUME NEW w \in Workers, Pause(w) \/ RecordFailure(w) PROVE IInv'
  <2>1. CASE IsWriter(held[w])
    <3>1. PICK state \in {"paused", "failed"} : row' = Marked(state)
      BY <1>8, <2>1 DEF Pause, RecordFailure
    <3>2. Leave(w) /\ UNCHANGED <<staged, published, runs>>
      BY <1>8, <2>1 DEF Pause, RecordFailure
    <3>3. QED BY <1>7, <2>1, <3>1, <3>2
  <2>2. CASE ~IsWriter(held[w])
    <3>1. UNCHANGED row BY <1>8, <2>2 DEF Pause, RecordFailure
    <3>2. QED BY <1>6, <1>8, <3>1
  <2>3. QED BY <2>1, <2>2
<1>9. ASSUME NEW w \in Workers, DatabaseError(w) PROVE IInv'
  BY <1>6, <1>9 DEF DatabaseError
<1>10. ASSUME Crash PROVE IInv'
  <2>1. NoRow.run = 0 BY NewRowFields DEF NoRow
  <2>2. /\ \A w \in Workers : held'[w].run = 0 /\ pc'[w] = "idle"
        /\ UNCHANGED <<row, staged, published, runs>>
    BY <1>10, <2>1 DEF Crash
  <2>3. HeldIsPast' BY <2>2 DEF HeldIsPast
  <2>4. RunsAreFresh' BY <1>0, <2>2 DEF RunsAreFresh, TypeOK
  <2>5. FetchHasFeed' BY <2>2 DEF FetchHasFeed
  <2>6. (PagesInSequence /\ StagingConsistent /\ PublishedConsistent)'
    BY <2>2 DEF PagesInSequence, StagingConsistent, PublishedConsistent
  <2>7. QED BY <1>0, <2>3, <2>4, <2>5, <2>6
<1>11. ASSUME UNCHANGED <<row, staged, published, held, runs>>,
              \A v \in Workers : pc'[v] = "fetch" => pc[v] = "fetch"
       PROVE IInv'
  <2>1. FetchHasFeed' BY <1>11 DEF FetchHasFeed
  <2>2. HeldIsPast' /\ RunsAreFresh' BY <1>11 DEF HeldIsPast, RunsAreFresh
  <2>3. (PagesInSequence /\ StagingConsistent /\ PublishedConsistent)'
    BY <1>11 DEF PagesInSequence, StagingConsistent, PublishedConsistent
  <2>4. QED BY <1>0, <2>1, <2>2, <2>3
<1>13. ASSUME NEW w \in Workers, NEW identity \in Identity, RefuseChangedIdentity(w, identity)
       PROVE IInv'
  BY <1>11, <1>13 DEF RefuseChangedIdentity
<1>14. CASE UNCHANGED vars
  BY <1>11, <1>14 DEF vars
<1>16. ASSUME NEW w \in Workers, FetchFails(w) \/ RejectStalePage(w) \/ RequestPause(w)
       PROVE IInv'
  <2>1. UNCHANGED <<row, staged, published, held, runs>>
    BY <1>16 DEF FetchFails, RejectStalePage, RequestPause
  <2>2. pc' = pc \/ pc' = [pc EXCEPT ![w] = "fail"]
    BY <1>16 DEF FetchFails, RejectStalePage, RequestPause, Goto
  <2>3. QED BY <1>0, <1>11, <2>1, <2>2 DEF TypeOK
<1>17. ASSUME NEW w \in Workers, NEW R \in SUBSET Record, RejectConflictingPage(w, R)
       PROVE IInv'
  <2>1. UNCHANGED <<row, staged, published, held, runs>> /\ pc' = [pc EXCEPT ![w] = "fail"]
    BY <1>17 DEF RejectConflictingPage, Goto
  <2>2. QED BY <1>0, <1>11, <2>1 DEF TypeOK
<1>18. ASSUME NEW w \in Workers, NEW now \in Now, PublishFails(w, now) PROVE IInv'
  <2>1. UNCHANGED <<row, staged, published, held, runs>> /\ pc' = [pc EXCEPT ![w] = "fail"]
    BY <1>18 DEF PublishFails, Goto
  <2>2. QED BY <1>0, <1>11, <2>1 DEF TypeOK
<1>19. QED
  BY <1>1, <1>2, <1>3, <1>4, <1>5, <1>8, <1>9, <1>10, <1>13, <1>14, <1>16, <1>17, <1>18
     DEF Next, Step

LEMMA Inductive == Spec => []IInv
BY IInit, IStep, PTL DEF Spec

LEMMA FreshFromIInv == IInv => FreshProgress
BY WriterHoldsRow DEF IInv, FreshProgress

\* A task whose run id and revision still match holds the very row that is stored,
\* so the page number it stages against is not stale.
THEOREM ProgressIsFresh == Spec => []FreshProgress
BY Inductive, FreshFromIInv, PTL

\* The pages committed to a run are consecutive from the first one.
THEOREM ResumePointIsExact == Spec => []PagesInSequence
<1>1. IInv => PagesInSequence BY DEF IInv
<1>2. QED BY <1>1, Inductive, PTL

\* Staged records belong to a pending run and never contradict one another.
THEOREM StagingIsConsistent == Spec => []StagingConsistent
<1>1. IInv => StagingConsistent BY DEF IInv
<1>2. QED BY <1>1, Inductive, PTL

-----------------------------------------------------------------------------
(* Which steps write the row, the staged records and the published history. *)

\* A step that is no Publish leaves the published history alone.
LEMMA OnlyPublishPublishes ==
  ASSUME [Next]_vars,
         \A w \in Workers, now \in Now : ~Publish(w, now)
  PROVE UNCHANGED published
BY DEF Next, Step, vars, Resume, RefuseChangedIdentity, StartRun, CheckLoop, FetchFails,
       StagePage, RejectStalePage, RejectConflictingPage, PublishFails, Pause,
       RecordFailure, RequestPause, DatabaseError, Crash

LEMMA PublishEffect ==
  ASSUME IInv, NEW w \in Workers, NEW now \in Now, Publish(w, now)
  PROVE /\ held[w] = row /\ row.run # 0 /\ AllDone(row)
        /\ AssetAccepted(row)
        /\ published' = SavedHistory(now)
        /\ NewerPublished(now) \/ RecordsAccepted
        /\ row' = NoRow /\ staged' = Nothing
<1>1. held[w] = row BY WriterHoldsRow DEF IInv, Publish
<1>2. QED BY <1>1 DEF Publish, IsWriter, WantsPublication

LEMMA HistoryStep ==
  ASSUME IInv, IInv', [Next]_vars
  PROVE /\ \A f \in Feeds :
             /\ published.records[f] \subseteq published'.records[f]
             /\ Agree(published'.records[f], published'.records[f])
        /\ published.identity # NoIdentity =>
             published'.identity.asset = published.identity.asset
<1>1. \A f \in Feeds : Agree(published'.records[f], published'.records[f])
  BY DEF IInv, PublishedConsistent
<1>2. CASE \E w \in Workers, now \in Now : Publish(w, now)
  <2>1. PICK w \in Workers, now \in Now : Publish(w, now) BY <1>2
  <2>2. published' = SavedHistory(now) /\ AssetAccepted(row) BY <2>1, PublishEffect
  <2>3. CASE NewerPublished(now) BY <1>1, <2>2, <2>3 DEF SavedHistory
  <2>4. CASE ~NewerPublished(now)
    BY <1>1, <2>2, <2>4 DEF SavedHistory, AssetAccepted
  <2>5. QED BY <2>3, <2>4
<1>3. CASE ~\E w \in Workers, now \in Now : Publish(w, now)
  BY <1>1, <1>3, OnlyPublishPublishes
<1>4. QED BY <1>2, <1>3

\* Published records are never lost or rewritten, and the asset never changes.
THEOREM HistoryIsKept == Spec => HistoryNeverRewritten
<1>1. IInv /\ IInv' /\ [Next]_vars =>
        [/\ \A f \in Feeds :
              /\ published.records[f] \subseteq published'.records[f]
              /\ Agree(published'.records[f], published'.records[f])
         /\ published.identity # NoIdentity =>
              published'.identity.asset = published.identity.asset]_vars
  BY HistoryStep
<1>2. QED BY <1>1, Inductive, PTL DEF Spec, HistoryNeverRewritten

-----------------------------------------------------------------------------
(* One writer per revision, and the refinement of the abstract history.    *)

\* The steps that write the row, each by what it does to it.
LEMMA RowWrites ==
  ASSUME IInv, [Next]_vars, row' # row
  PROVE \/ \E w \in Workers, identity \in Identity, restart \in BOOLEAN :
              StartRun(w, identity, restart)
        \/ \E w \in Workers, R \in SUBSET Record, last \in BOOLEAN : StagePage(w, R, last)
        \/ \E w \in Workers, now \in Now : Publish(w, now)
        \/ \E w \in Workers, state \in {"paused", "failed"} :
              /\ pc[w] \in {"finish", "fail"} /\ IsWriter(held[w])
              /\ row' = Marked(state) /\ UNCHANGED <<staged, published>>
<1>1. ASSUME NEW w \in Workers, Pause(w) \/ RecordFailure(w)
      PROVE \E state \in {"paused", "failed"} :
              /\ pc[w] \in {"finish", "fail"} /\ IsWriter(held[w])
              /\ row' = Marked(state) /\ UNCHANGED <<staged, published>>
  BY <1>1 DEF Pause, RecordFailure
<1>2. QED
  BY <1>1 DEF Next, Step, vars, Resume, RefuseChangedIdentity, CheckLoop, FetchFails,
     RejectStalePage, RejectConflictingPage, PublishFails, RequestPause, DatabaseError, Crash

\* What a page changes, kept folded so that the lemma is cited without its functions.
EndedAfter(f, last) == [row.done EXCEPT ![f] = last]
StagedAfter(f, R) == [staged EXCEPT ![f] = @ \cup R]

LEMMA StageEffect ==
  ASSUME IInv, NEW w \in Workers, NEW R \in SUBSET Record, NEW last \in BOOLEAN,
         StagePage(w, R, last)
  PROVE /\ held[w] = row /\ row.run # 0
        /\ row'.run = row.run /\ row'.rev = row.rev + 1
        /\ CurrentFeed(row) \in Feeds /\ row.done[CurrentFeed(row)] = FALSE
        /\ row'.done = EndedAfter(CurrentFeed(row), last)
        /\ staged' = StagedAfter(CurrentFeed(row), R)
        /\ PageAgrees(CurrentFeed(row), R)
        /\ UNCHANGED published
<1>1. held[w] = row /\ row.run # 0
  BY WriterHoldsRow DEF IInv, StagePage, IsWriter
<1>2. row \in Checkpoint /\ last \in BOOLEAN BY DEF IInv, TypeOK
<1> DEFINE f == CurrentFeed(row)
           page == row.next[f]
<1>3. f \in Feeds /\ row.done[f] = FALSE
  BY <1>1, <1>2, UnfinishedFeed DEF IInv, FetchHasFeed, StagePage
<1>4. page \in Nat BY <1>2, <1>3 DEF Checkpoint
<1>5. row' = Advanced(f, page, last) BY <1>1 DEF StagePage
<1>6. /\ staged' = [staged EXCEPT ![f] = @ \cup R] /\ PageAgrees(f, R) /\ UNCHANGED published
  BY <1>1 DEF StagePage
<1> HIDE DEF f, page
<1>7. row'.run = row.run /\ row'.rev = row.rev + 1 /\ row'.done = [row.done EXCEPT ![f] = last]
  <2>1. /\ Advanced(f, page, last).run = row.run
        /\ Advanced(f, page, last).rev = row.rev + 1
        /\ Advanced(f, page, last).done = [row.done EXCEPT ![f] = last]
    BY <1>2 DEF Advanced, Checkpoint
  <2>2. QED BY <1>5, <2>1
<1>8. row'.done = EndedAfter(f, last) /\ staged' = StagedAfter(f, R)
  BY <1>6, <1>7, Zenon DEF EndedAfter, StagedAfter
<1>9. QED BY <1>1, <1>3, <1>6, <1>7, <1>8, Zenon DEF f

LEMMA WriterStep ==
  ASSUME IInv, [Next]_vars, row' # row, row'.run = row.run
  PROVE /\ row'.rev = row.rev + 1
        /\ \E w \in Workers : pc[w] # "idle" /\ held[w] = row
<1>1. ASSUME NEW w \in Workers, NEW identity \in Identity, NEW restart \in BOOLEAN,
             StartRun(w, identity, restart)
      PROVE FALSE
  <2>1. row'.run = runs + 1
    <3>1. row' = NewRow(runs + 1, identity) BY <1>1 DEF StartRun
    <3> QED BY <3>1, Zenon DEF NewRow
  <2>2. QED BY <2>1 DEF IInv, TypeOK, RunsAreFresh, Checkpoint
<1>2. ASSUME NEW w \in Workers, NEW R \in SUBSET Record, NEW last \in BOOLEAN,
             StagePage(w, R, last)
      PROVE row'.rev = row.rev + 1 /\ pc[w] # "idle" /\ held[w] = row
  BY <1>2, StageEffect DEF StagePage
<1>3. ASSUME NEW w \in Workers, NEW now \in Now, Publish(w, now) PROVE FALSE
  BY <1>3, PublishEffect, NoRowFields
<1>4. ASSUME NEW w \in Workers, NEW state \in {"paused", "failed"},
             pc[w] \in {"finish", "fail"}, IsWriter(held[w]), row' = Marked(state)
      PROVE row'.rev = row.rev + 1 /\ pc[w] # "idle" /\ held[w] = row
  BY <1>4, MarkedFields, WriterHoldsRow DEF IInv, TypeOK
<1>5. QED BY <1>1, <1>2, <1>3, <1>4, RowWrites

\* A revision has one writer: a write that keeps the run id raises the revision by
\* one and comes from a task that holds the row it replaces.
THEOREM OneWriter == Spec => OneWriterPerRevision
<1>1. IInv /\ [Next]_vars =>
        [row' # row /\ row'.run = row.run =>
           /\ row'.rev = row.rev + 1
           /\ \E w \in Workers : pc[w] # "idle" /\ held[w] = row]_vars
  BY WriterStep
<1>2. QED BY <1>1, Inductive, PTL DEF Spec, OneWriterPerRevision

LEMMA ForwardClock ==
  ASSUME ClockMayStepBack = FALSE, TypeOK, NEW now \in Now
  PROVE ~NewerPublished(now)
BY DEF Now, NewerPublished, TypeOK, Published

LEMMA PublishesAll ==
  ASSUME ClockMayStepBack = FALSE, IInv, NEW w \in Workers, NEW now \in Now, Publish(w, now)
  PROVE /\ RecordsAccepted
        /\ published'.records = [f \in Feeds |-> published.records[f] \cup staged[f]]
<1>1. ~NewerPublished(now) BY ForwardClock DEF IInv
<1>2. published' = SavedHistory(now) /\ RecordsAccepted BY <1>1, PublishEffect
<1>3. QED BY <1>1, <1>2 DEF SavedHistory

LEMMA CompletionStep ==
  ASSUME ClockMayStepBack = FALSE, IInv, [Next]_vars,
         published' # published \/ (row.run # 0 /\ row'.run = 0)
  PROVE /\ row.run # 0 /\ row'.run = 0
        /\ AllDone(row)
        /\ \A f \in Feeds : published'.records[f] = published.records[f] \cup staged[f]
<1>1. ASSUME NEW w \in Workers, NEW identity \in Identity, NEW restart \in BOOLEAN,
             StartRun(w, identity, restart)
      PROVE FALSE
  <2>1. row'.run = runs + 1 /\ UNCHANGED published BY <1>1, NewRowFields DEF StartRun
  <2>2. QED BY <2>1 DEF IInv, TypeOK
<1>2. ASSUME NEW w \in Workers, NEW R \in SUBSET Record, NEW last \in BOOLEAN,
             StagePage(w, R, last)
      PROVE FALSE
  BY <1>2, StageEffect
<1>3. ASSUME NEW w \in Workers, NEW state \in {"paused", "failed"},
             row' = Marked(state), UNCHANGED published
      PROVE FALSE
  BY <1>3, MarkedFields DEF IInv, TypeOK
<1>4. PICK w \in Workers, now \in Now : Publish(w, now)
  BY <1>1, <1>2, <1>3, RowWrites, OnlyPublishPublishes
<1>5. QED BY <1>4, PublishEffect, PublishesAll, NoRowFields

\* If the clock is never set back, publication and the removal of a checkpoint are
\* one step that publishes every staged record of two finished feeds.
THEOREM PublicationIsComplete ==
  ASSUME ClockMayStepBack = FALSE
  PROVE Spec => CompletedRunIsPublished
<1>1. IInv /\ [Next]_vars =>
        [published' # published \/ (row.run # 0 /\ row'.run = 0) =>
           /\ row.run # 0 /\ row'.run = 0
           /\ AllDone(row)
           /\ \A f \in Feeds : published'.records[f] = published.records[f] \cup staged[f]]_vars
  BY CompletionStep
<1>2. QED BY <1>1, Inductive, PTL DEF Spec, CompletedRunIsPublished

LEMMA RefinementInit == Init => History!Init
BY NoRowFields DEF Init, History!Init, History!Nothing, History!NoneEnded, Nothing

LEMMA RefinementStep ==
  ASSUME ClockMayStepBack = FALSE, IInv, IInv', [Next]_vars
  PROVE [History!Next]_(History!vars)
<1>1. ASSUME NEW w \in Workers, NEW identity \in Identity, NEW restart \in BOOLEAN,
             StartRun(w, identity, restart)
      PROVE History!Open
  <2>1. /\ row'.run = runs + 1 /\ row'.done = [f \in Feeds |-> FALSE]
        /\ staged' = Nothing /\ UNCHANGED published
    <3>1. row' = NewRow(runs + 1, identity) /\ staged' = Nothing /\ UNCHANGED published
      BY <1>1 DEF StartRun
    <3>2. row'.run = runs + 1 /\ row'.done = [f \in Feeds |-> FALSE]
      BY <3>1, Zenon DEF NewRow
    <3> QED BY <3>1, <3>2
  <2>2. (row'.run # 0) = TRUE BY <2>1 DEF IInv, TypeOK
  <2>3. QED BY <2>1, <2>2 DEF History!Open, History!Nothing, History!NoneEnded, Nothing
<1>2. ASSUME NEW w \in Workers, NEW R \in SUBSET Record, NEW last \in BOOLEAN,
             StagePage(w, R, last)
      PROVE History!Gather
  <2> DEFINE f == CurrentFeed(row)
  <2>1. /\ f \in Feeds /\ row.done[f] = FALSE
        /\ row'.done = EndedAfter(f, last) /\ staged' = StagedAfter(f, R)
        /\ PageAgrees(f, R)
    BY <1>2, StageEffect
  <2>2. row.run # 0 /\ row'.run = row.run /\ UNCHANGED published
    BY <1>2, StageEffect
  <2> HIDE DEF f
  <2>3. History!Agree(R, R \cup staged[f]) BY <2>1 DEF PageAgrees, Agree, History!Agree
  <2>4. row'.done = [row.done EXCEPT ![f] = last] /\ staged' = [staged EXCEPT ![f] = @ \cup R]
    BY <2>1, Zenon DEF EndedAfter, StagedAfter
  <2>5. QED BY <2>1, <2>2, <2>3, <2>4 DEF History!Gather
<1>3. ASSUME NEW w \in Workers, NEW now \in Now, Publish(w, now) PROVE History!Publish
  <2>1. /\ row.run # 0 /\ AllDone(row) /\ row' = NoRow /\ staged' = Nothing
        /\ RecordsAccepted
        /\ published'.records = [f \in Feeds |-> published.records[f] \cup staged[f]]
    BY <1>3, PublishEffect, PublishesAll
  <2>2. \A f \in Feeds : row.done[f] /\ History!Agree(staged[f], published.records[f])
    BY <2>1 DEF AllDone, RecordsAccepted, Agree, History!Agree
  <2>3. (row'.run # 0) = FALSE /\ row'.done = [f \in Feeds |-> FALSE]
    BY <2>1, NoRowFields
  <2>4. QED BY <2>1, <2>2, <2>3 DEF History!Publish, History!Nothing, History!NoneEnded, Nothing
<1>4. ASSUME NEW w \in Workers, NEW state \in {"paused", "failed"},
             row' = Marked(state), UNCHANGED <<staged, published>>
      PROVE UNCHANGED History!vars
  BY <1>4, MarkedFields DEF History!vars, IInv, TypeOK
<1>5. CASE row' # row
  BY <1>1, <1>2, <1>3, <1>4, <1>5, RowWrites DEF History!Next
<1>6. CASE row' = row
  <2>1. CASE \E w \in Workers, now \in Now : Publish(w, now)
    BY <1>3, <2>1 DEF History!Next
  <2>2. CASE ~\E w \in Workers, now \in Now : Publish(w, now)
    <3>1. UNCHANGED published BY <2>2, OnlyPublishPublishes
    <3>2. ASSUME NEW w \in Workers, NEW R \in SUBSET Record, NEW last \in BOOLEAN,
                 StagePage(w, R, last)
          PROVE FALSE
      <4>1. row'.rev = row.rev + 1 BY <3>2, StageEffect
      <4>2. QED BY <1>6, <4>1 DEF IInv, TypeOK, Checkpoint
    <3>3. ASSUME NEW w \in Workers, NEW identity \in Identity, NEW restart \in BOOLEAN,
                 StartRun(w, identity, restart)
          PROVE FALSE
      <4>1. row'.run = runs + 1 BY <3>3, NewRowFields DEF StartRun
      <4>2. QED BY <1>6, <4>1 DEF IInv, TypeOK, RunsAreFresh, Checkpoint
    <3>4. UNCHANGED staged
      BY <2>2, <3>2, <3>3 DEF Next, Step, vars, Resume, RefuseChangedIdentity, CheckLoop,
         FetchFails, RejectStalePage, RejectConflictingPage, PublishFails, Pause,
         RecordFailure, RequestPause, DatabaseError, Crash
    <3>5. QED BY <1>6, <3>1, <3>4 DEF History!vars
  <2>3. QED BY <2>1, <2>2
<1>7. QED BY <1>5, <1>6

\* If the clock is never set back, the tables implement the abstract history: a
\* traversal reaches the published history only as a whole.
THEOREM Refinement ==
  ASSUME ClockMayStepBack = FALSE
  PROVE Spec => ImplementsHistory
<1>1. IInv /\ IInv' /\ [Next]_vars => [History!Next]_(History!vars)
  BY RefinementStep
<1>2. QED BY <1>1, RefinementInit, Inductive, PTL DEF Spec, ImplementsHistory, History!Spec
-----------------------------------------------------------------------------
(* XStocksBrowser: what a load may miss.                                   *)

Load == [at : {"idle", "first", "second", "read"}, run : Nat,
         records : [Feeds -> SUBSET Record]]

\* Everything that was published or pending when the load was asked for is still
\* there to be read: by both reads, by the second one, or in what was read.
NothingMissedYet ==
  /\ load \in Load
  /\ since.run = 0 => since.staged = Nothing
  /\ load.at \in {"first", "second"} => Includes(published.records, since.published)
  /\ load.at = "first" =>
       \/ row.run = since.run /\ Includes(staged, since.staged)
       \/ Includes(published.records, since.staged)
       \/ replaced
  /\ load.at = "second" =>
       \/ load.run = since.run
       \/ Includes(published.records, since.staged)
       \/ replaced
  /\ LoadMissesNothing

\* What a step of the tasks leaves of the pending run: its records stay staged, or
\* are published, or the run is replaced.
LEMMA PendingStep ==
  ASSUME ClockMayStepBack = FALSE, IInv, IInv', Next
  PROVE /\ Includes(published'.records, published.records)
        /\ \/ row'.run = row.run /\ Includes(staged', staged)
           \/ row'.run = 0 /\ Includes(published'.records, staged)
           \/ row'.run \notin {0, row.run}
<1>1. Includes(published'.records, published.records)
  BY HistoryStep DEF Includes
<1>2. CASE row' = row
  <2>1. staged' = staged
    <3>1. ASSUME NEW w \in Workers, NEW identity \in Identity, NEW restart \in BOOLEAN,
                 StartRun(w, identity, restart)
          PROVE FALSE
      <4>1. row'.run = runs + 1
        BY <3>1, NewRowFields DEF StartRun
      <4> QED
        BY <1>2, <4>1 DEF IInv, TypeOK, RunsAreFresh, Checkpoint
    <3>2. ASSUME NEW w \in Workers, NEW R \in SUBSET Record, NEW last \in BOOLEAN,
                 StagePage(w, R, last)
          PROVE FALSE
      <4>1. row'.rev = row.rev + 1
        BY <3>2, StageEffect
      <4> QED
        BY <1>2, <4>1 DEF IInv, TypeOK, Checkpoint
    <3>3. ASSUME NEW w \in Workers, NEW now \in Now, Publish(w, now)
          PROVE FALSE
      BY <1>2, <3>3, PublishEffect, NoRowFields
    <3> QED
      BY <3>1, <3>2, <3>3
      DEF Next, Step, Resume, RefuseChangedIdentity, CheckLoop, FetchFails, RejectStalePage,
          RejectConflictingPage, PublishFails, Pause, RecordFailure, RequestPause,
          DatabaseError, Crash
  <2> QED
    BY <1>1, <1>2, <2>1 DEF Includes
<1>3. ASSUME NEW w \in Workers, NEW identity \in Identity, NEW restart \in BOOLEAN,
             StartRun(w, identity, restart)
      PROVE row'.run \notin {0, row.run}
  <2>1. row'.run = runs + 1
    BY <1>3, NewRowFields DEF StartRun
  <2> QED
    BY <2>1 DEF IInv, TypeOK, RunsAreFresh, Checkpoint
<1>4. ASSUME NEW w \in Workers, NEW R \in SUBSET Record, NEW last \in BOOLEAN,
             StagePage(w, R, last)
      PROVE row'.run = row.run /\ Includes(staged', staged)
  <2>1. row'.run = row.run /\ staged' = StagedAfter(CurrentFeed(row), R)
    BY <1>4, StageEffect
  <2> QED
    BY <2>1 DEF StagedAfter, Includes, IInv, TypeOK
<1>5. ASSUME NEW w \in Workers, NEW now \in Now, Publish(w, now)
      PROVE row'.run = 0 /\ Includes(published'.records, staged)
  <2>1. row'.run = 0
    BY <1>5, PublishEffect, NoRowFields
  <2>2. published'.records = [f \in Feeds |-> published.records[f] \cup staged[f]]
    BY <1>5, PublishesAll
  <2> QED
    BY <2>1, <2>2 DEF Includes
<1>6. ASSUME NEW state \in {"paused", "failed"}, row' = Marked(state), UNCHANGED staged
      PROVE row'.run = row.run /\ Includes(staged', staged)
  BY <1>6, MarkedFields DEF IInv, TypeOK, Includes
<1> QED
  BY <1>1, <1>2, <1>3, <1>4, <1>5, <1>6, RowWrites

LEMMA LoadInit == BrowserInit => NothingMissedYet
BY DEF BrowserInit, NothingMissedYet, NothingRead, NoTables, Nothing, Load, LoadMissesNothing

LEMMA LoadStep ==
  ASSUME ClockMayStepBack = FALSE, IInv, IInv', NothingMissedYet, [BrowserNext]_browserVars
  PROVE  NothingMissedYet'
<1>1. CASE Ask
  <2>1. /\ load' = [load EXCEPT !.at = "first"] /\ since' = Tables
        /\ row' = row /\ staged' = staged /\ published' = published
    BY <1>1 DEF Ask, vars
  <2>2. load' \in Load /\ load'.at = "first"
    BY <2>1 DEF NothingMissedYet, Load
  <2>3. since'.run = row.run /\ since'.staged = staged /\ since'.published = published.records
    BY <2>1 DEF Tables
  <2>4. row.run = 0 => staged = Nothing
    BY DEF IInv, StagingConsistent
  <2> QED
    BY <2>1, <2>2, <2>3, <2>4 DEF NothingMissedYet, LoadMissesNothing, Includes, Nothing
<1>2. CASE ReadProgress("first", "second")
  <2>1. /\ load' = [load EXCEPT !.at = "second", !.run = row.run] /\ load.at = "first"
        /\ published' = published /\ since' = since /\ replaced' = replaced
    BY <1>2 DEF ReadProgress, vars
  <2>2. row.run \in Nat
    BY DEF IInv, TypeOK, Checkpoint
  <2>3. load' \in Load /\ load'.at = "second" /\ load'.run = row.run
    BY <2>1, <2>2 DEF NothingMissedYet, Load
  <2> QED
    BY <2>1, <2>3 DEF NothingMissedYet, LoadMissesNothing, Includes
<1>3. CASE ReadHistory("second", "read")
  <2>1. /\ load' = [load EXCEPT !.at = "read", !.records = published.records]
        /\ load.at = "second" /\ since' = since /\ replaced' = replaced
    BY <1>3 DEF ReadHistory, vars
  <2>2. published.records \in [Feeds -> SUBSET Record]
    BY DEF IInv, TypeOK, Published
  <2>3. /\ load' \in Load /\ load'.at = "read" /\ load'.run = load.run
        /\ load'.records = published.records
    BY <2>1, <2>2 DEF NothingMissedYet, Load
  <2> QED
    BY <2>1, <2>3 DEF NothingMissedYet, LoadMissesNothing, Includes
<1>4. CASE EndLoad
  BY <1>4 DEF EndLoad, NothingMissedYet, NothingRead, NoTables, Nothing, Load, LoadMissesNothing
<1>5. CASE Sync
  <2>1. Next /\ load' = load /\ since' = since /\ replaced' = (replaced \/ GivenUp)
    BY <1>5 DEF Sync
  <2>2. Includes(published'.records, published.records)
    BY <2>1, PendingStep
  <2>3. \A S : Includes(published.records, S) => Includes(published'.records, S)
    BY <2>2 DEF Includes
  <2>4. CASE load.at = "first"
    <3>1. CASE row.run = since.run /\ Includes(staged, since.staged)
      <4>1. CASE row'.run = row.run /\ Includes(staged', staged)
        BY <2>1, <2>3, <2>4, <3>1, <4>1 DEF NothingMissedYet, LoadMissesNothing, Includes
      <4>2. CASE Includes(published'.records, staged)
        BY <2>1, <2>3, <2>4, <3>1, <4>2 DEF NothingMissedYet, LoadMissesNothing, Includes
      <4>3. CASE row'.run \notin {0, row.run} /\ row.run # 0
        BY <2>1, <2>3, <2>4, <3>1, <4>3 DEF NothingMissedYet, LoadMissesNothing, GivenUp
      <4>4. CASE row.run = 0
        <5>1. Includes(published'.records, since.staged)
          BY <3>1, <4>4 DEF NothingMissedYet, Includes, Nothing
        <5> QED
          BY <2>1, <2>3, <2>4, <5>1 DEF NothingMissedYet, LoadMissesNothing
      <4> QED
        BY <2>1, <4>1, <4>2, <4>3, <4>4, PendingStep
    <3>2. CASE Includes(published.records, since.staged) \/ replaced
      BY <2>1, <2>3, <2>4, <3>2 DEF NothingMissedYet, LoadMissesNothing
    <3> QED
      BY <2>4, <3>1, <3>2 DEF NothingMissedYet
  <2>5. CASE load.at # "first"
    BY <2>1, <2>3, <2>5 DEF NothingMissedYet, LoadMissesNothing
  <2> QED
    BY <2>4, <2>5
<1>6. CASE UNCHANGED browserVars
  BY <1>6 DEF browserVars, loadVars, vars, NothingMissedYet, LoadMissesNothing
<1> QED
  BY <1>1, <1>2, <1>3, <1>4, <1>5, <1>6 DEF BrowserNext, Read

\* Nothing that was saved when a load was asked for is missing from its result,
\* whatever is staged, published or restarted between its two reads.
THEOREM LoadIsWhole ==
  ASSUME ClockMayStepBack = FALSE
  PROVE  BrowserSpec => []LoadMissesNothing
<1>1. BrowserInit => IInv
  BY IInit DEF BrowserInit
<1>2. IInv /\ [BrowserNext]_browserVars => IInv'
  <2>1. [BrowserNext]_browserVars => [Next]_vars
    BY DEF BrowserNext, Ask, Read, ReadProgress, ReadHistory, EndLoad, Sync, browserVars
  <2> QED
    BY <2>1, IStep
<1>3. IInv /\ IInv' /\ NothingMissedYet /\ [BrowserNext]_browserVars => NothingMissedYet'
  BY LoadStep
<1>4. NothingMissedYet => LoadMissesNothing
  BY DEF NothingMissedYet
<1> QED
  BY <1>1, <1>2, <1>3, <1>4, LoadInit, PTL DEF BrowserSpec
=============================================================================
