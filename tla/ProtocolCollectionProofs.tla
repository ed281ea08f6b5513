--------------------- MODULE ProtocolCollectionProofs ---------------------
(***************************************************************************)
(* Safety of ProtocolCollection for any number of processes, protocols,    *)
(* providers and items.                                                    *)
(***************************************************************************)
EXTENDS ProtocolCollection, TLAPS

Outcomes == Providers \cup Issues

\* A collector always stands at a key of Order.
LEMMA KeyIsKey ==
  ASSUME TypeOK, NEW c \in Collectors
  PROVE  Key(c) \in Keys /\ at[c] \in 1..Len(Order)
BY OrderAssumption DEF TypeOK, Key

\* tracker.read yields the recorded provider or an issue.
LEMMA OutcomeType ==
  ASSUME NEW w \in Collection, IsStored(w), NEW answer \in Providers \cup {Failed}
  PROVE  Outcome(w, answer) \in {w.provider} \cup Issues /\ Outcome(w, answer) \in Outcomes
BY DEF Outcome, Issues, Outcomes, Collection, IsStored

\* Appending the evidence of the next item keeps the list gap-free and single-sourced.
LEMMA AppendEvidence ==
  ASSUME NEW e \in Seq(Entry), NEW n \in Nat, NEW p, Covers(e, n), OnlyFrom(e, p),
         NEW outcome \in Outcomes, outcome \in {p} \cup Issues
  PROVE  LET f == Append(e, [item |-> n + 1, outcome |-> outcome])
         IN  /\ f \in Seq(Entry)
             /\ Covers(f, n + 1)
             /\ OnlyFrom(f, p)
             /\ (NoSwitch(e) /\ outcome # Switched) => NoSwitch(f)
<1> DEFINE x == [item |-> n + 1, outcome |-> outcome]
<1>1. x \in Entry
  BY DEF Entry, Outcomes
<1>2. /\ Append(e, x) \in Seq(Entry)
      /\ Len(Append(e, x)) = Len(e) + 1
      /\ Len(e) = n + 1
      /\ \A i \in 1..Len(e) : Append(e, x)[i] = e[i]
      /\ Append(e, x)[n + 2] = x
  BY <1>1 DEF Covers
<1>3. \A i \in 1..Len(Append(e, x)) : i \in 1..Len(e) \/ i = n + 2
  BY <1>2
<1> QED
  BY <1>2, <1>3 DEF Covers, OnlyFrom, NoSwitch

-----------------------------------------------------------------------------
(* Type correctness.                                                       *)

PCs == {"idle", "look", "open", "discover", "collect", "list"}

\* The collector's own variables keep their types.
LocalsOK ==
  /\ pc' \in [Collectors -> PCs] /\ at' \in [Collectors -> 1..Len(Order)]
  /\ force' \in [Collectors -> BOOLEAN] /\ work' \in [Collectors -> Collection]

LEMMA NothingType == Nothing \in Collection /\ NoSnapshot \in Snapshot
BY MaxItemsAssumption DEF Nothing, NoSnapshot, Collection, Snapshot

LEMMA AdvanceType ==
  ASSUME TypeOK, NEW c \in Collectors, Advance(c)
  PROVE  LocalsOK
<1>1. work' \in [Collectors -> Collection] /\ force' \in [Collectors -> BOOLEAN]
  BY NothingType DEF TypeOK, Advance
<1>2. CASE at[c] < Len(Order)
  <2>1. at[c] + 1 \in 1..Len(Order)
    BY <1>2, OrderAssumption DEF TypeOK
  <2> QED
    BY <1>1, <1>2, <2>1 DEF TypeOK, Advance, Goto, LocalsOK, PCs
<1>3. CASE ~(at[c] < Len(Order))
  BY <1>1, <1>3 DEF TypeOK, Advance, Goto, LocalsOK, PCs
<1> QED
  BY <1>2, <1>3

LEMMA LeaveType ==
  ASSUME TypeOK, NEW c \in Collectors, Leave(c)
  PROVE  LocalsOK
<1>1. 1 \in 1..Len(Order)
  BY OrderAssumption
<1> QED
  BY <1>1, NothingType DEF TypeOK, Leave, Goto, LocalsOK, PCs

LEMMA SaveCheckpointType ==
  ASSUME TypeOK, NEW c \in Collectors, NEW w \in Collection, SaveCheckpoint(c, w)
  PROVE  checkpoint' \in [Keys -> Collection]
BY DEF TypeOK, SaveCheckpoint, Saved

\* What one step of Discover builds.
LEMMA DiscoveredType ==
  ASSUME NEW p \in Providers, NEW n \in 0..MaxItems, NEW outcome \in {p} \cup Issues
  PROVE  LET w == [provider |-> p, items |-> n, next |-> 0,
                   evidence |-> <<[item |-> 0, outcome |-> outcome]>>]
         IN  w \in Collection /\ Sound(w) /\ (outcome # Switched => NoSwitch(w.evidence))
<1> DEFINE x == [item |-> 0, outcome |-> outcome]
<1>1. x \in Entry
  BY DEF Entry
<1>2. <<x>> \in Seq(Entry) /\ Len(<<x>>) = 1 /\ <<x>>[1] = x
  BY <1>1
<1>3. [provider |-> p, items |-> n, next |-> 0, evidence |-> <<x>>] \in Collection
  BY <1>2, MaxItemsAssumption DEF Collection
<1>4. Covers(<<x>>, 0) /\ OnlyFrom(<<x>>, p) /\ (outcome # Switched => NoSwitch(<<x>>))
  BY <1>2 DEF Covers, OnlyFrom, NoSwitch
<1> QED
  BY <1>3, <1>4, ProvidersAssumption DEF Sound, IsStored

\* What one pass of the item loop builds.
LEMMA CollectedType ==
  ASSUME NEW w \in Collection, Sound(w), w.next < w.items, NEW answer \in Providers \cup {Failed}
  PROVE  LET o == Outcome(w, answer)
             v == [w EXCEPT !.next = @ + 1, !.evidence = With(w, w.next + 1, o)]
         IN  /\ v \in Collection
             /\ Sound(v)
             /\ (NoSwitch(w.evidence) /\ o # Switched) => NoSwitch(v.evidence)
<1> DEFINE o == Outcome(w, answer)
           f == Append(w.evidence, [item |-> w.next + 1, outcome |-> o])
           v == [w EXCEPT !.next = @ + 1, !.evidence = f]
<1>1. o \in {w.provider} \cup Issues /\ o \in Outcomes
  BY OutcomeType DEF Sound
<1>2. w.next \in Nat /\ w.items \in 0..MaxItems /\ w.next + 1 \in 0..MaxItems /\ w.next + 1 <= w.items
  BY MaxItemsAssumption DEF Collection
<1>3. /\ f \in Seq(Entry) /\ Covers(f, w.next + 1) /\ OnlyFrom(f, w.provider)
      /\ (NoSwitch(w.evidence) /\ o # Switched) => NoSwitch(f)
  BY <1>1, <1>2, AppendEvidence DEF Sound, Collection
<1>4. v \in Collection /\ v.provider = w.provider /\ v.next = w.next + 1 /\ v.items = w.items
      /\ v.evidence = f
  <2> HIDE DEF f
  <2> QED BY <1>2, <1>3 DEF Collection
<1>5. Sound(v)
  <2> HIDE DEF f, v
  <2> QED BY <1>2, <1>3, <1>4 DEF Sound, IsStored
<1> HIDE DEF f, v
<1>6. v.evidence = f
  BY <1>4
<1>7. (NoSwitch(w.evidence) /\ o # Switched) => NoSwitch(v.evidence)
  BY <1>3, <1>6
<1> QED
  BY <1>4, <1>5, <1>7 DEF With, f, v

\* What Finish stores: whole, typed, and MATCHED only without issues.
LEMMA FinishedType ==
  ASSUME TypeOK, NEW c \in Collectors, Sound(work[c]), work[c].next = work[c].items,
         Key(c) \in Vaults => NoSwitch(work[c].evidence),
         NEW answer \in Providers \cup {Failed}, NEW warned \in BOOLEAN
  PROVE  LET k == Key(c)
             e == IF k \in WithAccount
                    THEN With(work[c], work[c].items + 1, Outcome(work[c], answer))
                    ELSE work[c].evidence
             s == [provider |-> work[c].provider, items |-> work[c].items,
                   evidence |-> e, matched |-> IsMatched(e, warned)]
         IN  s \in Snapshot /\ IsStored(s) /\ WholeSnapshot(k, s)
<1> DEFINE k == Key(c)
           o == Outcome(work[c], answer)
           e == IF k \in WithAccount THEN With(work[c], work[c].items + 1, o)
                                     ELSE work[c].evidence
           s == [provider |-> work[c].provider, items |-> work[c].items,
                 evidence |-> e, matched |-> IsMatched(e, warned)]
<1>1. work[c] \in Collection /\ work[c].items \in Nat
  BY MaxItemsAssumption DEF TypeOK, Collection
<1>2. o \in {work[c].provider} \cup Issues /\ o \in Outcomes
  BY <1>1, OutcomeType DEF Sound
<1>3. e \in Seq(Entry) /\ Covers(e, LastItem(k, work[c].items)) /\ OnlyFrom(e, work[c].provider)
  <2>1. CASE k \in WithAccount
    <3>1. work[c].evidence \in Seq(Entry) /\ Covers(work[c].evidence, work[c].items)
          /\ OnlyFrom(work[c].evidence, work[c].provider)
      BY <1>1 DEF Sound, Collection
    <3> QED
      BY <1>1, <1>2, <2>1, <3>1, AppendEvidence DEF With, LastItem
  <2>2. CASE k \notin WithAccount
    BY <1>1, <2>2 DEF Sound, Collection, LastItem
  <2> QED
    BY <2>1, <2>2
<1>4. k \in Vaults => NoSwitch(e)
  BY MarketsAssumption
<1> HIDE DEF e
<1>5. IsMatched(e, warned) \in BOOLEAN /\ (IsMatched(e, warned) => ~HasIssue(e))
  BY DEF IsMatched
<1>6. s \in Snapshot
  BY <1>1, <1>3, <1>5 DEF Snapshot, Collection
<1>7. IsStored(s) /\ WholeSnapshot(k, s)
  BY <1>3, <1>4, <1>5 DEF IsStored, WholeSnapshot, Sound
<1> QED
  BY <1>6, <1>7 DEF e

-----------------------------------------------------------------------------
(* The inductive step, one lemma per action that writes a table or a copy. *)

\* A step of c that leaves both tables alone and c outside the item loop.
LEMMA LocalStep ==
  ASSUME IInv, NEW c \in Collectors, LocalsOK, UNCHANGED <<snapshot, checkpoint>>,
         \A d \in Collectors \ {c} :
           pc'[d] = pc[d] /\ at'[d] = at[d] /\ work'[d] = work[d],
         pc'[c] = "collect" =>
           Sound(work'[c]) /\ (Key(c)' \in Vaults => NoSwitch(work'[c].evidence)),
         \A i \in 1..Len(Order) :
           i < at'[c] \/ pc'[c] = "list" => IsStored(snapshot[Order[i]])
  PROVE  IInv'
<1>1. TypeOK'
  BY DEF IInv, TypeOK, LocalsOK, PCs
<1>2. WorkSound'
  BY DEF IInv, WorkSound, Key
<1>3. RowsSound'
  BY DEF IInv, RowsSound
<1>4. PassedStored'
  BY DEF IInv, PassedStored
<1> QED
  BY <1>1, <1>2, <1>3, <1>4 DEF IInv

\* What Advance does to the keys passed, once the present key is stored.
LEMMA AdvancePasses ==
  ASSUME TypeOK, PassedStored, NEW c \in Collectors, Advance(c), IsStored(snapshot[Key(c)])
  PROVE  /\ \A d \in Collectors \ {c} :
              pc'[d] = pc[d] /\ at'[d] = at[d] /\ work'[d] = work[d]
         /\ pc'[c] # "collect"
         /\ \A i \in 1..Len(Order) :
              i < at'[c] \/ pc'[c] = "list" => IsStored(snapshot[Order[i]])
<1>1. \A d \in Collectors \ {c} : pc'[d] = pc[d] /\ at'[d] = at[d] /\ work'[d] = work[d]
  BY DEF Advance, Goto, TypeOK
<1>2. \A i \in 1..Len(Order) : i <= at[c] => IsStored(snapshot[Order[i]])
  BY DEF PassedStored, Key, TypeOK
<1>3. CASE at[c] < Len(Order)
  <2>1. pc'[c] = "look" /\ at'[c] = at[c] + 1
    BY <1>3 DEF Advance, Goto, TypeOK
  <2> QED
    BY <1>1, <1>2, <2>1, OrderAssumption DEF TypeOK
<1>4. CASE ~(at[c] < Len(Order))
  <2>1. pc'[c] = "list" /\ at'[c] = at[c] /\ at[c] = Len(Order)
    BY <1>4, OrderAssumption DEF Advance, Goto, TypeOK
  <2> QED
    BY <1>1, <1>2, <2>1, OrderAssumption DEF TypeOK
<1> QED
  BY <1>3, <1>4

LEMMA LeavePasses ==
  ASSUME TypeOK, NEW c \in Collectors, Leave(c)
  PROVE  /\ \A d \in Collectors \ {c} :
              pc'[d] = pc[d] /\ at'[d] = at[d] /\ work'[d] = work[d]
         /\ pc'[c] = "idle" /\ at'[c] = 1
BY DEF Leave, Goto, TypeOK

\* Writing the checkpoint of c's key together with c's own copy.
LEMMA SavingStep ==
  ASSUME IInv, NEW c \in Collectors, NEW w \in Collection, Sound(w),
         Key(c) \in Vaults => NoSwitch(w.evidence),
         work' = [work EXCEPT ![c] = w], SaveCheckpoint(c, w),
         pc' = [pc EXCEPT ![c] = "collect"], pc[c] # "list", UNCHANGED <<snapshot, at, force>>
  PROVE  IInv'
<1>1. TypeOK'
  <2>1. checkpoint' \in [Keys -> Collection]
    BY SaveCheckpointType DEF IInv
  <2> QED
    BY <2>1 DEF IInv, TypeOK
<1>2. WorkSound'
  BY DEF IInv, WorkSound, Key, TypeOK
<1>3. RowsSound'
  <2>1. Key(c) \in Keys
    BY KeyIsKey DEF IInv
  <2>2. \A k \in Keys : checkpoint'[k] = checkpoint[k] \/ checkpoint'[k] = w
    BY <2>1 DEF SaveCheckpoint, Saved, IInv, TypeOK
  <2>3. IsStored(w)
    BY DEF Sound
  <2> QED
    BY <2>2, <2>3 DEF IInv, RowsSound
<1>4. PassedStored'
  BY DEF IInv, PassedStored, TypeOK
<1> QED
  BY <1>1, <1>2, <1>3, <1>4 DEF IInv

LEMMA FinishStep ==
  ASSUME IInv, NEW c \in Collectors, Finish(c)
  PROVE  IInv'
<1> DEFINE k == Key(c)
<1>1. Sound(work[c]) /\ (k \in Vaults => NoSwitch(work[c].evidence))
  BY DEF Finish, IInv, WorkSound
<1>2. k \in Keys
  BY KeyIsKey DEF IInv
<1>3. PICK s \in Snapshot : IsStored(s) /\ WholeSnapshot(k, s)
                            /\ snapshot' = [snapshot EXCEPT ![k] = s]
  <2>1. PICK answer \in Providers \cup {Failed}, warned \in BOOLEAN :
          LET e == IF k \in WithAccount
                     THEN With(work[c], work[c].items + 1, Outcome(work[c], answer))
                     ELSE work[c].evidence
          IN  snapshot' = [snapshot EXCEPT ![k] =
                [provider |-> work[c].provider, items |-> work[c].items,
                 evidence |-> e, matched |-> IsMatched(e, warned)]]
    BY Zenon DEF Finish
  <2>2. TypeOK /\ work[c].next = work[c].items
    BY DEF IInv, Finish
  <2> QED
    BY <1>1, <2>1, <2>2, FinishedType
<1>4. Advance(c) /\ checkpoint' = [checkpoint EXCEPT ![k] = Nothing]
  BY DEF Finish
<1>5. TypeOK'
  <2>1. LocalsOK
    BY <1>4, AdvanceType DEF IInv
  <2> QED
    BY <1>3, <1>4, <2>1, NothingType DEF IInv, TypeOK, LocalsOK, PCs
<1>6. /\ \A j \in Keys : IsStored(snapshot[j]) \/ j = k => IsStored(snapshot'[j])
      /\ \A j \in Keys \ {k} : snapshot'[j] = snapshot[j] /\ checkpoint'[j] = checkpoint[j]
      /\ snapshot'[k] = s /\ checkpoint'[k] = Nothing
  BY <1>2, <1>3, <1>4 DEF IInv, TypeOK
<1>7. \A d \in Collectors \ {c} : pc'[d] = pc[d] /\ at'[d] = at[d] /\ work'[d] = work[d]
  BY <1>4 DEF Advance, Goto, IInv, TypeOK
<1>8. WorkSound'
  <2>1. pc'[c] # "collect"
    BY <1>4 DEF Advance, Goto, IInv, TypeOK
  <2> QED
    BY <1>7, <2>1 DEF IInv, WorkSound, Key
<1>9. RowsSound'
  <2>1. ~IsStored(Nothing)
    BY DEF IsStored, Nothing
  <2>2. \A j \in Keys \ {k} :
          /\ IF IsStored(checkpoint'[j]) THEN Sound(checkpoint'[j]) ELSE checkpoint'[j] = Nothing
          /\ IF IsStored(snapshot'[j]) THEN WholeSnapshot(j, snapshot'[j])
                                       ELSE snapshot'[j] = NoSnapshot
    BY <1>6 DEF IInv, RowsSound
  <2>3. /\ IF IsStored(checkpoint'[k]) THEN Sound(checkpoint'[k]) ELSE checkpoint'[k] = Nothing
        /\ IF IsStored(snapshot'[k]) THEN WholeSnapshot(k, snapshot'[k])
                                     ELSE snapshot'[k] = NoSnapshot
    BY <1>3, <1>6, <2>1
  <2> QED
    BY <2>2, <2>3 DEF RowsSound
<1>10. PassedStored'
  <2>1. \A i \in 1..Len(Order) : Order[i] \in Keys
    BY OrderAssumption
  <2>2. \A i \in 1..Len(Order) : i <= at[c] => IsStored(snapshot'[Order[i]])
    BY <1>6, <2>1 DEF IInv, PassedStored, TypeOK, Key
  <2>3. at'[c] = at[c] \/ at'[c] = at[c] + 1
    BY <1>4, OrderAssumption DEF Advance, IInv, TypeOK
  <2>4. pc'[c] = "list" => at[c] = Len(Order)
    BY <1>4, OrderAssumption DEF Advance, Goto, IInv, TypeOK
  <2>5. \A i \in 1..Len(Order) : i < at'[c] \/ pc'[c] = "list" => IsStored(snapshot'[Order[i]])
    <3>1. at[c] \in Nat /\ Len(Order) \in Nat
      BY OrderAssumption DEF IInv, TypeOK
    <3> QED
      BY <2>2, <2>3, <2>4, <3>1
  <2> QED
    BY <1>6, <1>7, <2>1, <2>5 DEF IInv, PassedStored
<1> QED
  BY <1>5, <1>8, <1>9, <1>10 DEF IInv

LEMMA InvInit == Init => IInv
<1> SUFFICES ASSUME Init PROVE IInv
  OBVIOUS
<1>1. 1 \in 1..Len(Order)
  BY OrderAssumption
<1>2. TypeOK
  BY <1>1, NothingType DEF Init, TypeOK
<1>3. ~IsStored(Nothing) /\ ~IsStored(NoSnapshot)
  BY DEF IsStored, Nothing, NoSnapshot
<1>4. WorkSound /\ RowsSound
  BY <1>3 DEF Init, WorkSound, RowsSound
<1>5. PassedStored
  BY OrderAssumption DEF Init, PassedStored
<1> QED
  BY <1>2, <1>4, <1>5 DEF IInv

LEMMA InvStep == IInv /\ [Next]_vars => IInv'
<1> SUFFICES ASSUME IInv, [Next]_vars PROVE IInv'
  OBVIOUS
<1> USE DEF PCs
<1>1. ASSUME NEW c \in Collectors, NEW forced \in BOOLEAN, Begin(c, forced) PROVE IInv'
  <2>1. LocalsOK /\ UNCHANGED <<snapshot, checkpoint, at, work>>
    BY <1>1 DEF Begin, Goto, LocalsOK, IInv, TypeOK
  <2>2. pc'[c] = "look" /\ pc[c] = "idle" /\ \A d \in Collectors \ {c} : pc'[d] = pc[d]
    BY <1>1 DEF Begin, Goto, IInv, TypeOK
  <2> QED
    BY <2>1, <2>2, LocalStep DEF IInv, PassedStored
<1>2. ASSUME NEW c \in Collectors, Reuse(c) PROVE IInv'
  <2>1. Advance(c) /\ IsStored(snapshot[Key(c)]) /\ UNCHANGED <<snapshot, checkpoint>>
    BY <1>2 DEF Reuse
  <2> QED
    BY <2>1, AdvanceType, AdvancePasses, LocalStep DEF IInv
<1>3. ASSUME NEW c \in Collectors, Miss(c) PROVE IInv'
  <2>1. LocalsOK /\ UNCHANGED <<snapshot, checkpoint, at, work>>
    BY <1>3 DEF Miss, Goto, LocalsOK, IInv, TypeOK
  <2>2. pc'[c] = "open" /\ pc[c] = "look" /\ \A d \in Collectors \ {c} : pc'[d] = pc[d]
    BY <1>3 DEF Miss, Goto, IInv, TypeOK
  <2> QED
    BY <2>1, <2>2, LocalStep DEF IInv, PassedStored
<1>4. ASSUME NEW c \in Collectors, Open(c) PROVE IInv'
  <2>1. Key(c) \in Keys /\ TypeOK
    BY KeyIsKey DEF IInv
  <2>2. LocalsOK /\ UNCHANGED <<snapshot, checkpoint, at>>
    BY <1>4, <2>1 DEF Open, Goto, LocalsOK, TypeOK, Resumed
  <2>3. pc[c] = "open" /\ \A d \in Collectors \ {c} : pc'[d] = pc[d] /\ work'[d] = work[d]
    BY <1>4, <2>1 DEF Open, Goto, TypeOK
  <2>4. pc'[c] = "collect" =>
          Sound(work'[c]) /\ (Key(c)' \in Vaults => NoSwitch(work'[c].evidence))
    <3>1. CASE Key(c) \in Markets /\ IsStored(checkpoint[Key(c)])
      <4>1. work'[c] = checkpoint[Key(c)]
        BY <1>4, <2>1, <3>1 DEF Open, TypeOK, Resumed
      <4>2. Key(c)' = Key(c) /\ Key(c) \notin Vaults
        BY <2>2, <3>1, MarketsAssumption DEF Key
      <4> QED
        BY <2>1, <3>1, <4>1, <4>2 DEF IInv, RowsSound
    <3>2. CASE ~(Key(c) \in Markets /\ IsStored(checkpoint[Key(c)]))
      BY <1>4, <2>1, <3>2 DEF Open, Goto, TypeOK
    <3> QED
      BY <3>1, <3>2
  <2>5. pc'[c] # "list"
    BY <1>4, <2>1 DEF Open, Goto, TypeOK
  <2> QED
    BY <2>2, <2>3, <2>4, <2>5, LocalStep DEF IInv, PassedStored
<1>5. ASSUME NEW c \in Collectors, Discover(c) PROVE IInv'
  <2>1. PICK p \in Providers, n \in 0..MaxItems :
          \E outcome \in {p} \cup (IF Key(c) \in WithSymbols THEN Issues ELSE {}) :
            LET w == [provider |-> p, items |-> n, next |-> 0,
                      evidence |-> <<[item |-> 0, outcome |-> outcome]>>]
            IN  work' = [work EXCEPT ![c] = w] /\ SaveCheckpoint(c, w)
    BY <1>5, Zenon DEF Discover
  <2>2. PICK outcome \in {p} \cup (IF Key(c) \in WithSymbols THEN Issues ELSE {}) :
          LET w == [provider |-> p, items |-> n, next |-> 0,
                    evidence |-> <<[item |-> 0, outcome |-> outcome]>>]
          IN  work' = [work EXCEPT ![c] = w] /\ SaveCheckpoint(c, w)
    BY <2>1, Zenon
  <2> DEFINE w == [provider |-> p, items |-> n, next |-> 0,
                   evidence |-> <<[item |-> 0, outcome |-> outcome]>>]
  <2>3. outcome \in {p} \cup Issues
    BY <2>2
  <2>4. w \in Collection /\ Sound(w) /\ (outcome # Switched => NoSwitch(w.evidence))
    BY <2>3, DiscoveredType
  <2>5. Key(c) \in Vaults => outcome # Switched
    BY <2>2, MarketsAssumption, ProvidersAssumption
  <2>6. work' = [work EXCEPT ![c] = w] /\ SaveCheckpoint(c, w)
    BY <2>2
  <2>7. pc' = [pc EXCEPT ![c] = "collect"] /\ pc[c] # "list" /\ UNCHANGED <<snapshot, at, force>>
    BY <1>5 DEF Discover, Goto
  <2> HIDE DEF w
  <2> QED
    BY <2>4, <2>5, <2>6, <2>7, SavingStep
<1>6. ASSUME NEW c \in Collectors, Collect(c) PROVE IInv'
  <2>1. PICK answer \in Providers \cup {Failed} :
          LET o == Outcome(work[c], answer)
              w == [work[c] EXCEPT !.next = @ + 1,
                                   !.evidence = With(work[c], work[c].next + 1, o)]
          IN  MayKeep(Key(c), o) /\ work' = [work EXCEPT ![c] = w] /\ SaveCheckpoint(c, w)
    BY <1>6, Zenon DEF Collect
  <2> DEFINE o == Outcome(work[c], answer)
             w == [work[c] EXCEPT !.next = @ + 1,
                                  !.evidence = With(work[c], work[c].next + 1, o)]
  <2>2. /\ work[c] \in Collection /\ Sound(work[c]) /\ work[c].next < work[c].items
        /\ (Key(c) \in Vaults => NoSwitch(work[c].evidence))
    BY <1>6 DEF Collect, IInv, WorkSound, TypeOK
  <2>3. /\ w \in Collection /\ Sound(w)
        /\ (NoSwitch(work[c].evidence) /\ o # Switched) => NoSwitch(w.evidence)
    BY <2>2, CollectedType
  <2>4. MayKeep(Key(c), o) /\ work' = [work EXCEPT ![c] = w] /\ SaveCheckpoint(c, w)
    BY <2>1
  <2>5. pc' = [pc EXCEPT ![c] = "collect"] /\ pc[c] # "list" /\ UNCHANGED <<snapshot, at, force>>
    BY <1>6 DEF Collect, IInv, TypeOK
  <2>6. Key(c) \in Vaults => o # Switched
    BY <2>4 DEF MayKeep
  <2> HIDE DEF w, o
  <2> QED
    BY <2>2, <2>3, <2>4, <2>5, <2>6, SavingStep
<1>7. ASSUME NEW c \in Collectors, List(c) PROVE IInv'
  BY <1>7, LeaveType, LeavePasses, LocalStep DEF List, IInv
<1>8. ASSUME NEW c \in Collectors, Abort(c) PROVE IInv'
  BY <1>8, LeaveType, LeavePasses, LocalStep DEF Abort, IInv
<1>9. CASE UNCHANGED vars
  BY <1>9 DEF vars, IInv, TypeOK, WorkSound, RowsSound, PassedStored, Key
<1> QED
  BY <1>1, <1>2, <1>3, <1>4, <1>5, <1>6, <1>7, <1>8, <1>9, FinishStep DEF Next, Step

LEMMA Invariance == Spec => []IInv
BY InvInit, InvStep, PTL DEF Spec

-----------------------------------------------------------------------------
\* Every row and local variable keeps its type, with any number of processes.
THEOREM TypeCorrect == Spec => []TypeOK
BY Invariance, PTL DEF IInv

\* A stored checkpoint holds exactly the items before its index, so that
\* resuming neither skips nor repeats one.
THEOREM CheckpointIsExact == Spec => []CheckpointIsPrefix
<1>1. IInv => CheckpointIsPrefix
  BY DEF IInv, RowsSound, Sound, CheckpointIsPrefix
<1> QED
  BY <1>1, Invariance, PTL

\* A finished snapshot accounts for every item its discovery listed, and is
\* MATCHED only when all were read.
THEOREM FinishedIsWhole == Spec => []SnapshotIsWhole
<1>1. IInv => SnapshotIsWhole
  BY DEF IInv, RowsSound, WholeSnapshot, SnapshotIsWhole
<1> QED
  BY <1>1, Invariance, PTL

\* The evidence of a row comes from the one provider the row names.
THEOREM SingleProvenance == Spec => []OneProvider
<1>1. OnlyFrom(<< >>, NoProvider)
  BY DEF OnlyFrom
<1>2. IInv => OneProvider
  BY <1>1 DEF IInv, RowsSound, Sound, WholeSnapshot, OneProvider, Nothing, NoSnapshot
<1> QED
  BY <1>2, Invariance, PTL

\* A vault result never records a provider change as an optional failure.
THEOREM VaultContext == Spec => []VaultsNeverHideASwitch
<1>1. IInv => VaultsNeverHideASwitch
  BY DEF IInv, RowsSound, WholeSnapshot, VaultsNeverHideASwitch, NoSwitch, NoSnapshot, Keys
<1> QED
  BY <1>1, Invariance, PTL

\* A refresh that returns left a snapshot of every protocol.
THEOREM RefreshStoresAll == Spec => []RefreshIsWhole
<1>1. IInv => RefreshIsWhole
  BY OrderAssumption DEF IInv, PassedStored, RefreshIsWhole
<1> QED
  BY <1>1, Invariance, PTL

-----------------------------------------------------------------------------
(* One process: its checkpoint is its own.                                 *)

\* The row of the market a lone process collects is its own copy, and there is
\* none while it discovers one.
OwnCheckpoint ==
  \A c \in Collectors : Key(c) \in Markets =>
    /\ pc[c] = "collect" => checkpoint[Key(c)] = work[c]
    /\ pc[c] = "discover" => ~IsStored(checkpoint[Key(c)])

\* A collector that starts, goes on to another key or stops owns no row yet.
LEMMA NoRowYet ==
  ASSUME NEW c, Collectors = {c}, pc'[c] \notin {"collect", "discover"}
  PROVE  OwnCheckpoint'
BY DEF OwnCheckpoint

\* It has just written its copy, or there is no table to write it to.
LEMMA RowWritten ==
  ASSUME TypeOK, NEW c, Collectors = {c}, NEW w, work' = [work EXCEPT ![c] = w],
         SaveCheckpoint(c, w), at' = at, pc'[c] = "collect"
  PROVE  OwnCheckpoint'
<1>1. Key(c) \in Keys /\ Key(c)' = Key(c) /\ work'[c] = w
  BY KeyIsKey DEF Key, TypeOK
<1>2. Key(c) \in Markets => checkpoint'[Key(c)] = w
  BY <1>1 DEF SaveCheckpoint, Saved, TypeOK
<1> QED
  BY <1>1, <1>2 DEF OwnCheckpoint

LEMMA OwnCheckpointStep ==
  ASSUME NEW c, Collectors = {c}, TypeOK, OwnCheckpoint, [Next]_vars
  PROVE  OwnCheckpoint'
<1>1. pc \in [Collectors -> PCs] /\ c \in Collectors
  BY DEF TypeOK, PCs
<1>2. ASSUME NEW forced \in BOOLEAN, Begin(c, forced) PROVE OwnCheckpoint'
  BY <1>1, <1>2, NoRowYet DEF Begin, Goto
<1>3. CASE Reuse(c)
  BY <1>1, <1>3, NoRowYet DEF Reuse, Advance, Goto
<1>4. CASE Miss(c)
  BY <1>1, <1>4, NoRowYet DEF Miss, Goto
<1>5. CASE Open(c)
  <2>1. Key(c) \in Keys /\ Key(c)' = Key(c) /\ checkpoint' = checkpoint
    BY <1>1, <1>5, KeyIsKey DEF Open, Key
  <2>2. CASE Key(c) \in Markets /\ IsStored(checkpoint[Key(c)])
    <3>1. pc'[c] = "collect" /\ work'[c] = checkpoint[Key(c)]
      BY <1>1, <1>5, <2>2 DEF Open, Goto, Resumed, TypeOK
    <3> QED
      BY <2>1, <3>1 DEF OwnCheckpoint
  <2>3. CASE ~(Key(c) \in Markets /\ IsStored(checkpoint[Key(c)]))
    <3>1. pc'[c] = "discover"
      BY <1>1, <1>5, <2>3 DEF Open, Goto
    <3> QED
      BY <2>1, <2>3, <3>1 DEF OwnCheckpoint
  <2> QED
    BY <2>2, <2>3
<1>6. CASE Discover(c)
  <2>1. PICK w : work' = [work EXCEPT ![c] = w] /\ SaveCheckpoint(c, w)
    BY <1>6 DEF Discover
  <2>2. at' = at /\ pc'[c] = "collect"
    BY <1>1, <1>6 DEF Discover, Goto
  <2> QED
    BY <2>1, <2>2, RowWritten
<1>7. CASE Collect(c)
  <2>1. PICK w : work' = [work EXCEPT ![c] = w] /\ SaveCheckpoint(c, w)
    BY <1>7 DEF Collect
  <2>2. at' = at /\ pc'[c] = "collect"
    BY <1>7 DEF Collect
  <2> QED
    BY <2>1, <2>2, RowWritten
<1>8. CASE Finish(c)
  BY <1>1, <1>8, NoRowYet DEF Finish, Advance, Goto
<1>9. CASE List(c) \/ Abort(c)
  BY <1>1, <1>9, NoRowYet DEF List, Abort, Leave, Goto
<1>10. CASE UNCHANGED vars
  BY <1>10 DEF vars, OwnCheckpoint, Key
<1> QED
  BY <1>2, <1>3, <1>4, <1>5, <1>6, <1>7, <1>8, <1>9, <1>10 DEF Next, Step

\* What one pass or one discovery does to the row it writes.
LEMMA RowAdvances ==
  ASSUME TypeOK, OwnCheckpoint, NEW c \in Collectors, NEW w, SaveCheckpoint(c, w),
         Key(c) \in Markets /\ IsStored(checkpoint[Key(c)]) => w.next >= work[c].next,
         pc[c] = "collect" \/ pc[c] = "discover", NEW k \in Keys,
         IsStored(checkpoint[k])
  PROVE  checkpoint'[k].next >= checkpoint[k].next
<1>1. Key(c) \in Keys /\ checkpoint[k].next \in Nat
  BY KeyIsKey, MaxItemsAssumption DEF TypeOK, Collection
<1>2. CASE k = Key(c) /\ k \in Markets
  <2>1. checkpoint'[k] = w /\ checkpoint[k] = work[c]
    BY <1>2 DEF SaveCheckpoint, Saved, TypeOK, OwnCheckpoint
  <2> QED
    BY <1>2, <2>1
<1>3. CASE ~(k = Key(c) /\ k \in Markets)
  <2>1. checkpoint'[k] = checkpoint[k]
    BY <1>1, <1>3 DEF SaveCheckpoint, TypeOK
  <2> QED
    BY <1>1, <2>1
<1> QED
  BY <1>2, <1>3

\* With one process, a collection interrupted anywhere goes on from its
\* checkpoint: its index only grows until the snapshot is stored.
THEOREM ProgressIsKept ==
  ASSUME NEW c, Collectors = {c}
  PROVE  Spec => NeverStartsOver
<1> DEFINE NotBehind == \A k \in Keys : IsStored(checkpoint[k]) /\ IsStored(checkpoint'[k])
                          => checkpoint'[k].next >= checkpoint[k].next
<1>1. Init => OwnCheckpoint
  BY DEF Init, OwnCheckpoint
<1>2. TypeOK /\ OwnCheckpoint /\ [Next]_vars => OwnCheckpoint'
  BY OwnCheckpointStep
<1>3. TypeOK /\ OwnCheckpoint /\ [Next]_vars => [NotBehind]_vars
  <2> SUFFICES ASSUME TypeOK, OwnCheckpoint, Next, NEW k \in Keys,
                      IsStored(checkpoint[k]), IsStored(checkpoint'[k])
               PROVE  checkpoint'[k].next >= checkpoint[k].next
    OBVIOUS
  <2>1. c \in Collectors /\ checkpoint[k].next \in Nat /\ Key(c) \in Keys
    BY KeyIsKey, MaxItemsAssumption DEF TypeOK, Collection
  <2>2. CASE checkpoint' = checkpoint
    BY <2>1, <2>2
  <2>3. CASE Discover(c)
    <3>1. PICK w : SaveCheckpoint(c, w)
      BY <2>3 DEF Discover
    <3>2. pc[c] = "discover"
      BY <2>3 DEF Discover
    <3>3. ~(Key(c) \in Markets /\ IsStored(checkpoint[Key(c)]))
      BY <2>1, <3>2 DEF OwnCheckpoint
    <3> QED
      BY <2>1, <3>1, <3>2, <3>3, RowAdvances
  <2>4. CASE Collect(c)
    <3>1. PICK answer \in Providers \cup {Failed} :
            SaveCheckpoint(c, [work[c] EXCEPT !.next = @ + 1,
              !.evidence = With(work[c], work[c].next + 1, Outcome(work[c], answer))])
      BY <2>4, Zenon DEF Collect
    <3> DEFINE e == With(work[c], work[c].next + 1, Outcome(work[c], answer))
               w == [work[c] EXCEPT !.next = @ + 1, !.evidence = e]
    <3> HIDE DEF e
    <3>2. work[c] \in Collection /\ work[c].next \in Nat
      BY <2>1, MaxItemsAssumption DEF TypeOK, Collection
    <3>3. w.next >= work[c].next
      BY <3>2 DEF Collection
    <3>4. SaveCheckpoint(c, w)
      BY <3>1 DEF e
    <3>5. pc[c] = "collect"
      BY <2>4 DEF Collect
    <3> HIDE DEF w
    <3> QED
      BY <2>1, <3>3, <3>4, <3>5, RowAdvances
  <2>5. CASE Finish(c)
    <3>1. k = Key(c) => checkpoint'[k] = Nothing
      BY <2>5 DEF Finish, TypeOK
    <3>2. k # Key(c) => checkpoint'[k] = checkpoint[k]
      BY <2>5 DEF Finish, TypeOK
    <3>3. ~IsStored(Nothing)
      BY DEF IsStored, Nothing
    <3> QED
      BY <2>1, <3>1, <3>2, <3>3
  <2>6. \/ checkpoint' = checkpoint \/ Discover(c) \/ Collect(c) \/ Finish(c)
    BY DEF Next, Step, Begin, Reuse, Miss, Open, List, Abort
  <2> QED
    BY <2>2, <2>3, <2>4, <2>5, <2>6
<1>4. Spec => [][NotBehind]_vars
  BY <1>1, <1>2, <1>3, TypeCorrect, PTL DEF Spec
<1> QED
  BY <1>4 DEF NeverStartsOver

-----------------------------------------------------------------------------
(* A collection in one go.                                                 *)

\* A discovery is recorded as failed only where it has optional reads.
Opening(k, w) == k \notin WithSymbols => w.evidence[1].outcome = w.provider

MandatoryRead ==
  /\ \A c \in Collectors : pc[c] = "collect" => Opening(Key(c), work[c])
  /\ \A k \in Keys : IsStored(checkpoint[k]) => Opening(k, checkpoint[k])

LEMMA MandatoryInit == Init => MandatoryRead
BY DEF Init, MandatoryRead, IsStored, Nothing

\* A copy that is saved under its key.
LEMMA MandatorySaved ==
  ASSUME IInv, MandatoryRead, NEW c \in Collectors, NEW w, Opening(Key(c), w),
         work' = [work EXCEPT ![c] = w], SaveCheckpoint(c, w), at' = at,
         \A d \in Collectors \ {c} : pc'[d] = pc[d]
  PROVE  MandatoryRead'
<1>1. Key(c) \in Keys
  BY KeyIsKey DEF IInv
<1>2. \A d \in Collectors : pc'[d] = "collect" => Opening(Key(d)', work'[d])
  BY DEF MandatoryRead, Key, IInv, TypeOK
<1>3. \A k \in Keys : checkpoint'[k] = checkpoint[k] \/ (k = Key(c) /\ checkpoint'[k] = w)
  BY <1>1 DEF SaveCheckpoint, Saved, IInv, TypeOK
<1>4. \A k \in Keys : IsStored(checkpoint'[k]) => Opening(k, checkpoint'[k])
  BY <1>3 DEF MandatoryRead
<1> QED
  BY <1>2, <1>4 DEF MandatoryRead, Key

\* A step of c that leaves it outside the item loop, and no row that was not there.
LEMMA MandatoryElsewhere ==
  ASSUME MandatoryRead, NEW c \in Collectors, pc'[c] # "collect",
         \A d \in Collectors \ {c} : pc'[d] = pc[d] /\ at'[d] = at[d] /\ work'[d] = work[d],
         \A k \in Keys : IsStored(checkpoint'[k]) => checkpoint'[k] = checkpoint[k]
  PROVE  MandatoryRead'
<1>1. \A d \in Collectors : pc'[d] = "collect" => Opening(Key(d)', work'[d])
  BY DEF MandatoryRead, Key
<1>2. \A k \in Keys : IsStored(checkpoint'[k]) => Opening(k, checkpoint'[k])
  BY DEF MandatoryRead
<1> QED
  BY <1>1, <1>2 DEF MandatoryRead, Key

LEMMA MandatoryStep == IInv /\ MandatoryRead /\ [Next]_vars => MandatoryRead'
<1> SUFFICES ASSUME IInv, MandatoryRead, [Next]_vars PROVE MandatoryRead'
  OBVIOUS
<1>1. TypeOK
  BY DEF IInv
<1>2. ASSUME NEW c \in Collectors, NEW forced \in BOOLEAN, Begin(c, forced) PROVE MandatoryRead'
  BY <1>1, <1>2, MandatoryElsewhere DEF Begin, Goto, TypeOK
<1>3. ASSUME NEW c \in Collectors, Reuse(c) PROVE MandatoryRead'
  BY <1>1, <1>3, MandatoryElsewhere DEF Reuse, Advance, Goto, TypeOK
<1>4. ASSUME NEW c \in Collectors, Miss(c) PROVE MandatoryRead'
  BY <1>1, <1>4, MandatoryElsewhere DEF Miss, Goto, TypeOK
<1>5. ASSUME NEW c \in Collectors, Open(c) PROVE MandatoryRead'
  <2>1. Key(c) \in Keys /\ checkpoint' = checkpoint /\ at' = at
    BY <1>5, KeyIsKey DEF Open, IInv
  <2>2. \A d \in Collectors \ {c} : pc'[d] = pc[d] /\ work'[d] = work[d]
    BY <1>1, <1>5 DEF Open, Goto, TypeOK
  <2>3. pc'[c] = "collect" => Opening(Key(c), work'[c])
    BY <1>1, <1>5, <2>1 DEF Open, Goto, Resumed, TypeOK, MandatoryRead
  <2>4. \A d \in Collectors : pc'[d] = "collect" => Opening(Key(d)', work'[d])
    BY <2>1, <2>2, <2>3 DEF MandatoryRead, Key
  <2> QED
    BY <2>1, <2>4 DEF MandatoryRead, Key
<1>6. ASSUME NEW c \in Collectors, Discover(c) PROVE MandatoryRead'
  <2>1. PICK p \in Providers, n \in 0..MaxItems :
          \E outcome \in {p} \cup (IF Key(c) \in WithSymbols THEN Issues ELSE {}) :
            LET w == [provider |-> p, items |-> n, next |-> 0,
                      evidence |-> <<[item |-> 0, outcome |-> outcome]>>]
            IN  work' = [work EXCEPT ![c] = w] /\ SaveCheckpoint(c, w)
    BY <1>6, Zenon DEF Discover
  <2>2. PICK outcome \in {p} \cup (IF Key(c) \in WithSymbols THEN Issues ELSE {}) :
          LET w == [provider |-> p, items |-> n, next |-> 0,
                    evidence |-> <<[item |-> 0, outcome |-> outcome]>>]
          IN  work' = [work EXCEPT ![c] = w] /\ SaveCheckpoint(c, w)
    BY <2>1, Zenon
  <2> DEFINE w == [provider |-> p, items |-> n, next |-> 0,
                   evidence |-> <<[item |-> 0, outcome |-> outcome]>>]
  <2>3. Opening(Key(c), w)
    BY <2>2 DEF Opening
  <2>4. work' = [work EXCEPT ![c] = w] /\ SaveCheckpoint(c, w)
    BY <2>2
  <2>5. at' = at /\ \A d \in Collectors \ {c} : pc'[d] = pc[d]
    BY <1>1, <1>6 DEF Discover, Goto, TypeOK
  <2> HIDE DEF w
  <2> QED
    BY <2>3, <2>4, <2>5, MandatorySaved
<1>7. ASSUME NEW c \in Collectors, Collect(c) PROVE MandatoryRead'
  <2>1. PICK answer \in Providers \cup {Failed} :
          LET o == Outcome(work[c], answer)
              w == [work[c] EXCEPT !.next = @ + 1,
                                   !.evidence = With(work[c], work[c].next + 1, o)]
          IN  work' = [work EXCEPT ![c] = w] /\ SaveCheckpoint(c, w)
    BY <1>7, Zenon DEF Collect
  <2> DEFINE e == With(work[c], work[c].next + 1, Outcome(work[c], answer))
             w == [work[c] EXCEPT !.next = @ + 1, !.evidence = e]
  <2>2. /\ work[c] \in Collection /\ Covers(work[c].evidence, work[c].next)
        /\ work[c].next \in Nat /\ Opening(Key(c), work[c]) /\ pc[c] = "collect"
    BY <1>1, <1>7, MaxItemsAssumption
    DEF Collect, IInv, WorkSound, Sound, TypeOK, Collection, MandatoryRead
  <2>3. Outcome(work[c], answer) \in Outcomes
    BY <1>7, <2>2, OutcomeType DEF Collect, IInv, WorkSound, Sound
  <2>4. e[1] = work[c].evidence[1]
    <3> DEFINE x == [item |-> work[c].next + 1, outcome |-> Outcome(work[c], answer)]
    <3>1. x \in Entry
      BY <2>2, <2>3 DEF Entry, Outcomes
    <3>2. work[c].evidence \in Seq(Entry) /\ 1 \in 1..Len(work[c].evidence)
      BY <2>2 DEF Collection, Covers
    <3> HIDE DEF x
    <3>3. Append(work[c].evidence, x)[1] = work[c].evidence[1]
      BY <3>1, <3>2
    <3> QED
      BY <3>3 DEF With, x
  <2> HIDE DEF e
  <2>5. w.evidence = e /\ w.provider = work[c].provider
    BY <2>2 DEF Collection
  <2>6. work' = [work EXCEPT ![c] = w] /\ SaveCheckpoint(c, w)
    BY <2>1 DEF e
  <2> HIDE DEF w
  <2>7. Opening(Key(c), w)
    BY <2>2, <2>4, <2>5 DEF Opening
  <2>8. at' = at /\ \A d \in Collectors \ {c} : pc'[d] = pc[d]
    BY <1>7 DEF Collect
  <2> QED
    BY <2>6, <2>7, <2>8, MandatorySaved
<1>8. ASSUME NEW c \in Collectors, Finish(c) PROVE MandatoryRead'
  <2>1. checkpoint' = [checkpoint EXCEPT ![Key(c)] = Nothing] /\ ~IsStored(Nothing)
    BY <1>8 DEF Finish, IsStored, Nothing
  <2>2. \A k \in Keys : IsStored(checkpoint'[k]) => checkpoint'[k] = checkpoint[k]
    BY <1>1, <2>1 DEF TypeOK
  <2> QED
    BY <1>1, <1>8, <2>2, MandatoryElsewhere DEF Finish, Advance, Goto, TypeOK
<1>9. ASSUME NEW c \in Collectors, List(c) \/ Abort(c) PROVE MandatoryRead'
  BY <1>1, <1>9, MandatoryElsewhere DEF List, Abort, Leave, Goto, TypeOK
<1>10. CASE UNCHANGED vars
  BY <1>10 DEF vars, MandatoryRead, Key
<1> QED
  BY <1>2, <1>3, <1>4, <1>5, <1>6, <1>7, <1>8, <1>9, <1>10 DEF Next, Step

\* What Finish stores is a row of one collection in one go.
LEMMA FinishInOneGo ==
  ASSUME IInv, MandatoryRead, NEW c \in Collectors, Finish(c)
  PROVE  AtOnce!Store(Key(c))
<1> DEFINE k == Key(c)
           v == work[c]
<1>1. /\ v \in Collection /\ Sound(v) /\ v.next = v.items /\ Opening(k, v)
      /\ k \in Keys /\ (k \in Vaults => NoSwitch(v.evidence))
  BY KeyIsKey DEF Finish, IInv, TypeOK, WorkSound, MandatoryRead
<1>2. PICK answer \in Providers \cup {Failed}, warned \in BOOLEAN :
        LET e == IF k \in WithAccount
                   THEN With(work[c], work[c].items + 1, Outcome(work[c], answer))
                   ELSE work[c].evidence
        IN  snapshot' = [snapshot EXCEPT ![k] =
              [provider |-> work[c].provider, items |-> work[c].items,
               evidence |-> e, matched |-> IsMatched(e, warned)]]
  BY Zenon DEF Finish
<1> DEFINE o == Outcome(v, answer)
           e == IF k \in WithAccount THEN With(v, v.items + 1, o) ELSE v.evidence
           s == [provider |-> v.provider, items |-> v.items,
                 evidence |-> e, matched |-> IsMatched(e, warned)]
<1>3. snapshot' = [snapshot EXCEPT ![k] = s]
  BY <1>2
<1>4. s \in Snapshot /\ WholeSnapshot(k, s)
  BY <1>1, FinishedType DEF IInv
<1>5. e[1] = v.evidence[1]
  <2>1. v.evidence \in Seq(Entry) /\ 1 \in 1..Len(v.evidence)
    BY <1>1, MaxItemsAssumption DEF Collection, Sound, Covers
  <2>2. v.items + 1 \in Nat /\ o \in Outcomes
    BY <1>1, OutcomeType, MaxItemsAssumption DEF Collection, Sound
  <2> DEFINE x == [item |-> v.items + 1, outcome |-> o]
  <2>3. x \in Entry
    BY <2>2 DEF Entry, Outcomes
  <2> HIDE DEF x, v
  <2>4. Append(v.evidence, x)[1] = v.evidence[1]
    BY <2>1, <2>3
  <2> QED
    BY <2>4 DEF With, x
<1>6. /\ s.provider = v.provider /\ s.items = v.items /\ s.evidence = e
      /\ s.matched => ~HasIssue(e)
  BY DEF IsMatched
<1> HIDE DEF e, s, v, k
<1>7. AtOnce!InOneGo(k, s)
  <2>1. /\ s.provider \in Providers /\ s.items \in 0..MaxItems
        /\ s.evidence \in Seq(Entry) /\ s.items \in Nat
    BY <1>1, <1>4, <1>6, MaxItemsAssumption DEF Snapshot, Sound, IsStored
  <2>2. /\ Len(s.evidence) = LastItem(k, s.items) + 1
        /\ \A i \in 1..Len(s.evidence) : /\ s.evidence[i].item = i - 1
                                         /\ s.evidence[i].outcome \in {s.provider} \cup Issues
                                         /\ s.matched => s.evidence[i].outcome \notin Issues
                                         /\ k \in Vaults => s.evidence[i].outcome # Switched
    BY <1>4, <1>6 DEF WholeSnapshot, Covers, OnlyFrom, NoSwitch, HasIssue
  <2>3. DOMAIN s.evidence = AtOnce!Reads(k, s.items)
    BY <2>1, <2>2 DEF LastItem, AtOnce!Reads
  <2>4. k \notin WithSymbols => s.evidence[1].outcome = s.provider
    BY <1>1, <1>5, <1>6 DEF Opening
  <2>5. k \in WithSymbols => k \notin Vaults
    BY MarketsAssumption
  <2>6. DOMAIN s.evidence = 1..Len(s.evidence)
    BY <2>1
  <2>7. ASSUME NEW i \in AtOnce!Reads(k, s.items)
        PROVE  /\ s.evidence[i].item = i - 1
               /\ s.evidence[i].outcome \in {s.provider} \cup AtOnce!Issues(k, i)
               /\ s.matched => s.evidence[i].outcome = s.provider
    <3>1. i \in 1..Len(s.evidence)
      BY <2>3, <2>6, <2>7
    <3>2. s.evidence[i].outcome \in {s.provider} \cup AtOnce!Issues(k, i)
      BY <2>2, <2>4, <2>5, <3>1 DEF AtOnce!Issues, Issues
    <3> QED
      BY <2>2, <3>1, <3>2
  <2> QED
    BY <2>1, <2>3, <2>7 DEF AtOnce!InOneGo
<1>8. snapshot'[k] = s
  BY <1>1, <1>3 DEF IInv, TypeOK
<1> QED
  BY <1>3, <1>7, <1>8 DEF AtOnce!Store, k

\* However a collection was interrupted, resumed and shared among processes, the
\* rows that readers see are those of collections made in one go.
THEOREM Refinement == Spec => ImplementsAtOnce
<1>1. Init => AtOnce!Init
  BY DEF Init, AtOnce!Init, NoSnapshot, AtOnce!None, Keys, AtOnce!Keys
<1>2. IInv /\ MandatoryRead /\ [Next]_vars => [AtOnce!Next]_snapshot
  <2> SUFFICES ASSUME IInv, MandatoryRead, Next, snapshot' # snapshot
               PROVE  AtOnce!Next
    BY DEF vars
  <2>1. PICK c \in Collectors : Finish(c)
    BY DEF Next, Step, Begin, Reuse, Miss, Open, Discover, Collect, List, Abort
  <2>2. Key(c) \in AtOnce!Keys
    BY KeyIsKey DEF IInv, Keys, AtOnce!Keys
  <2> QED
    BY <2>1, <2>2, FinishInOneGo DEF AtOnce!Next
<1> QED
  BY <1>1, <1>2, MandatoryInit, MandatoryStep, Invariance, PTL
  DEF Spec, ImplementsAtOnce, AtOnce!Spec

-----------------------------------------------------------------------------
(* One process: what is stored is reused.                                  *)

\* A lone process that was not forced collects only what is not stored.
CollectsMissing ==
  \A c \in Collectors : pc[c] \in {"open", "discover", "collect"} /\ ~force[c]
    => ~IsStored(snapshot[Key(c)])

LEMMA CollectsMissingStep ==
  ASSUME NEW c, Collectors = {c}, TypeOK, CollectsMissing, [Next]_vars
  PROVE  CollectsMissing'
<1>1. pc \in [Collectors -> PCs] /\ c \in Collectors
  BY DEF TypeOK, PCs
<1>2. ASSUME pc'[c] \notin {"open", "discover", "collect"} PROVE CollectsMissing'
  BY <1>2 DEF CollectsMissing
<1>3. ASSUME NEW forced \in BOOLEAN, Begin(c, forced) PROVE CollectsMissing'
  BY <1>1, <1>2, <1>3 DEF Begin, Goto
<1>4. CASE Reuse(c)
  BY <1>1, <1>2, <1>4 DEF Reuse, Advance, Goto
<1>5. CASE Miss(c)
  BY <1>1, <1>5 DEF Miss, Goto, CollectsMissing, Key
<1>6. CASE Open(c)
  BY <1>1, <1>6 DEF Open, Goto, CollectsMissing, Key
<1>7. CASE Discover(c)
  BY <1>1, <1>7 DEF Discover, Goto, CollectsMissing, Key
<1>8. CASE Collect(c)
  BY <1>1, <1>8 DEF Collect, CollectsMissing, Key
<1>9. CASE Finish(c)
  BY <1>1, <1>2, <1>9 DEF Finish, Advance, Goto
<1>10. CASE List(c) \/ Abort(c)
  BY <1>1, <1>2, <1>10 DEF List, Abort, Leave, Goto
<1>11. CASE UNCHANGED vars
  BY <1>11 DEF vars, CollectsMissing, Key
<1> QED
  BY <1>3, <1>4, <1>5, <1>6, <1>7, <1>8, <1>9, <1>10, <1>11 DEF Next, Step

\* With one process, a stored result changes only in a forced refresh of it.
THEOREM StoredIsReused ==
  ASSUME NEW p, Collectors = {p}
  PROVE  Spec => OnlyForcedReplaces
<1> DEFINE Forced == \A k \in Keys : IsStored(snapshot[k]) /\ snapshot'[k] # snapshot[k]
                       => \E c \in Collectors : force[c] /\ Key(c) = k
<1>1. Init => CollectsMissing
  BY DEF Init, CollectsMissing
<1>2. TypeOK /\ CollectsMissing /\ [Next]_vars => CollectsMissing'
  BY CollectsMissingStep
<1>3. TypeOK /\ CollectsMissing /\ [Next]_vars => [Forced]_vars
  <2> SUFFICES ASSUME TypeOK, CollectsMissing, Next, NEW k \in Keys,
                      IsStored(snapshot[k]), snapshot'[k] # snapshot[k]
               PROVE  force[p] /\ Key(p) = k
    OBVIOUS
  <2>1. Finish(p)
    BY DEF Next, Step, Begin, Reuse, Miss, Open, Discover, Collect, List, Abort
  <2>2. \E s : snapshot' = [snapshot EXCEPT ![Key(p)] = s]
    BY <2>1 DEF Finish
  <2>3. k = Key(p)
    BY <2>2 DEF TypeOK
  <2> QED
    BY <2>1, <2>3 DEF Finish, CollectsMissing, TypeOK
<1> QED
  BY <1>1, <1>2, <1>3, TypeCorrect, PTL DEF Spec, OnlyForcedReplaces
=============================================================================
