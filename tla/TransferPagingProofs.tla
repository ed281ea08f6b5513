------------------------ MODULE TransferPagingProofs ------------------------
(***************************************************************************)
(* Proofs about TransferPaging for every set of adapters, number of pages, *)
(* length of the chain and window size.                                    *)
(***************************************************************************)
EXTENDS TransferPaging, TLAPS

USE NoneAssumption DEF Windowed

-----------------------------------------------------------------------------
(* Lemmas about the operators a page is built from.                        *)

LEMMA ListingsAreIn ==
  ASSUME TypeOK
  PROVE  /\ Keys \in [Listings(adapter) -> (Nat \ {0}) \cup {None}]
         /\ Started \in BOOLEAN
         /\ ApprovalTo \in Nat \cup {None, Absent}
BY DEF TypeOK, Cursors, Keys, NoKeys, Started, ApprovalTo

LEMMA NextKeysType ==
  ASSUME TypeOK
  PROVE  NextKeys \in [Listings(adapter) -> (Nat \ {0}) \cup {None}]
BY ListingsAreIn DEF TypeOK, NextKeys, PageOf

(* A window lies within the blocks before the one it ends at.              *)
LEMMA RangeIsWindow ==
  ASSUME TypeOK, ReadsApprovals
  PROVE  /\ ApprovalRange \in Window
         /\ LastBlock \in Nat
         /\ NextWindow \in Nat \cup {None}
<1>1. LastBlock \in Nat
  BY ListingsAreIn DEF TypeOK, ReadsApprovals, LastBlock
<1>2. ApprovalRange.first \in Nat /\ ApprovalRange \in Window
  BY <1>1, LookbackAssumption DEF ApprovalRange, Window
<1> QED
  BY <1>1, <1>2 DEF NextWindow

(* The cursor is None only if nothing is left to read.                     *)
LEMMA NextCursorType ==
  ASSUME TypeOK
  PROVE  /\ NextCursor \in Cursors(adapter) \cup {None}
         /\ NextCursor = None => NextKeys = NoKeys /\ NextApprovalTo \in {None, Absent}
<1>1. NextApprovalTo \in Nat \cup {None, Absent}
  BY RangeIsWindow DEF NextApprovalTo
<1>2. KeepsStart \in BOOLEAN /\ include \in BOOLEAN
  BY DEF KeepsStart, TypeOK
<1>3. [keys |-> NextKeys, started |-> KeepsStart, approvalTo |-> NextApprovalTo,
       mode |-> include] \in Cursors(adapter)
  BY <1>1, <1>2, NextKeysType DEF Cursors
<1> QED
  BY <1>3, NoneIsNoCursor DEF NextCursor, TypeOK

(* A cursor that names a next page is never None.                          *)
LEMMA CursorFields ==
  ASSUME TypeOK, NextCursor # None
  PROVE  /\ NextCursor.keys = NextKeys
         /\ NextCursor.started = KeepsStart
         /\ NextCursor.approvalTo = NextApprovalTo
         /\ NextCursor.mode = include
BY DEF NextCursor

-----------------------------------------------------------------------------
(* Types.                                                                  *)

LEMMA InitType == Init => TypeOK
<1> SUFFICES ASSUME Init PROVE TypeOK
  OBVIOUS
<1>1. head \in Nat /\ logs \subseteq 0..head
  <2>1. head \in Nat
    BY MaxHeadAssumption DEF Init
  <2>2. logs \subseteq {b \in Approvals : b <= head}
    BY DEF Init
  <2> QED
    BY <2>1, <2>2, ApprovalsAssumption
<1>2. pages \in [Listings(adapter) -> Nat \ {0}]
  <2>1. pages \in [Listings(adapter) -> 1..MaxPages] /\ 1..MaxPages \subseteq Nat \ {0}
    BY MaxPagesAssumption DEF Init
  <2> QED
    BY <2>1
<1>3. got \in [Listings(adapter) -> Seq(Nat \ {0})] /\ scanned \in Seq(Window)
  BY DEF Init
<1>4. adapter \in Adapters /\ include \in BOOLEAN /\ begun \in BOOLEAN /\ cursor = None
      /\ found \subseteq logs /\ modes \subseteq BOOLEAN
  BY DEF Init
<1> QED
  BY <1>1, <1>2, <1>3, <1>4 DEF TypeOK

LEMMA NextType == TypeOK /\ [Next]_vars => TypeOK'
<1> SUFFICES ASSUME TypeOK, [Next]_vars PROVE TypeOK'
  OBVIOUS
<1>1. CASE LoadPage
  <2>1. cursor' \in Cursors(adapter) \cup {None}
    BY <1>1, NextCursorType DEF LoadPage
  <2>2. got' \in [Listings(adapter) -> Seq(Nat \ {0})]
    <3>1. \A l \in Listings(adapter) : PageOf(l) \in Nat \ {0} /\ got[l] \in Seq(Nat \ {0})
      BY ListingsAreIn DEF PageOf, TypeOK
    <3> QED
      BY <1>1, <3>1 DEF LoadPage
  <2>3. scanned' \in Seq(Window) /\ found' \subseteq logs
    <3>1. CASE ReadsApprovals
      <4>1. PICK s \in Returned : found' = found \cup s
        BY <1>1, <3>1 DEF LoadPage
      <4>2. s \subseteq logs
        BY DEF Returned, Logged
      <4>3. scanned' = Append(scanned, ApprovalRange)
        BY <1>1, <3>1 DEF LoadPage
      <4>4. scanned' \in Seq(Window)
        BY <3>1, <4>3, RangeIsWindow DEF TypeOK
      <4> QED
        BY <4>1, <4>2, <4>4 DEF TypeOK
    <3>2. CASE ~ReadsApprovals
      BY <1>1, <3>2 DEF LoadPage, TypeOK
    <3> QED
      BY <3>1, <3>2
  <2> QED
    BY <1>1, <2>1, <2>2, <2>3 DEF LoadPage, TypeOK
<1>2. CASE ToggleApprovals
  BY <1>2 DEF ToggleApprovals, historyVars, TypeOK
<1>3. CASE NewBlock
  <2>1. head' \in Nat /\ logs \subseteq logs' /\ logs' \subseteq 0..head'
    <3>1. PICK s \in SUBSET (Approvals \cap {head'}) : logs' = logs \cup s
      BY <1>3 DEF NewBlock
    <3>2. head' = head + 1 /\ head' \in Nat /\ 0..head \subseteq 0..head' /\ head' \in 0..head'
      BY <1>3 DEF NewBlock, TypeOK
    <3>3. logs \subseteq 0..head
      BY DEF TypeOK
    <3> QED
      BY <3>1, <3>2, <3>3
  <2> QED
    BY <1>3, <2>1 DEF NewBlock, historyVars, TypeOK
<1>4. CASE UNCHANGED vars
  BY <1>4 DEF vars, historyVars, TypeOK
<1> QED
  BY <1>1, <1>2, <1>3, <1>4 DEF Next

(* Cursors keep positions that a listing can have, windows lie within the  *)
(* chain's blocks, and what is returned was logged.                        *)
THEOREM TypeCorrect == Spec => []TypeOK
BY InitType, NextType, PTL DEF Spec

-----------------------------------------------------------------------------
(* The transfers.                                                          *)

(* A cursor's position follows the pages already received, and a listing   *)
(* without a position was begun.                                           *)
Positions ==
  /\ ~begun => cursor = None /\ got = [l \in Listings(adapter) |-> <<>>]
  /\ adapter # "activity" /\ cursor # None =>
       \A l \in Listings(adapter) :
         /\ cursor.keys[l] # None => cursor.keys[l] = Len(got[l]) + 1
         /\ cursor.keys[l] = None => cursor.started

PageInv == Positions /\ PagesOnce

(* The page asked for is the one after those received.                     *)
LEMMA PageFollows ==
  ASSUME TypeOK, PageInv, begun => cursor # None, adapter # "activity",
         NEW l \in Asked
  PROVE  PageOf(l) = Len(got[l]) + 1
<1>1. l \in Listings(adapter) /\ (Started => Keys[l] # None)
  BY DEF Asked
<1>2. CASE cursor = None
  BY <1>1, <1>2 DEF PageInv, Positions, PageOf, Keys, NoKeys
<1>3. CASE cursor # None
  <2>1. cursor.keys[l] # None
    BY <1>1, <1>3 DEF PageInv, Positions, Started, Keys
  <2> QED
    BY <1>1, <1>3, <2>1 DEF PageInv, Positions, PageOf, Keys
<1> QED
  BY <1>2, <1>3

LEMMA NextPageInv == TypeOK /\ PageInv /\ [Next]_vars => PageInv'
<1> SUFFICES ASSUME TypeOK, PageInv, [Next]_vars PROVE PageInv'
  OBVIOUS
<1>1. CASE LoadPage
  <2>1. begun' /\ adapter' = adapter
    BY <1>1 DEF LoadPage
  <2>2. ASSUME adapter # "activity", NEW l \in Listings(adapter)
        PROVE  /\ \A i \in 1..Len(got'[l]) : got'[l][i] = i
               /\ NextKeys[l] # None => NextKeys[l] = Len(got'[l]) + 1
    <3>0. got[l] \in Seq(Nat \ {0}) /\ Len(got[l]) \in Nat
          /\ \A i \in 1..Len(got[l]) : got[l][i] = i
      BY <2>2 DEF PageInv, PagesOnce, TypeOK
    <3>1. CASE l \in Asked
      <4>1. PageOf(l) = Len(got[l]) + 1
        BY <1>1, <2>2, <3>1, PageFollows DEF LoadPage
      <4>2. got'[l] = Append(got[l], Len(got[l]) + 1)
        BY <1>1, <3>1, <4>1 DEF LoadPage
      <4>3. Len(got'[l]) = Len(got[l]) + 1
            /\ \A i \in 1..Len(got'[l]) : got'[l][i] = i
        BY <3>0, <4>2
      <4>4. NextKeys[l] # None => NextKeys[l] = PageOf(l) + 1
        BY DEF NextKeys
      <4> QED
        BY <4>1, <4>3, <4>4
    <3>2. CASE l \notin Asked
      BY <1>1, <3>0, <3>2 DEF LoadPage, NextKeys
    <3> QED
      BY <3>1, <3>2
  <2>3. ASSUME adapter # "activity", NextCursor # None, NEW l \in Listings(adapter),
               NextKeys[l] = None
        PROVE  NextCursor.started
    <3>1. CASE KeepsStart
      BY <2>3, <3>1, CursorFields
    <3>2. CASE ~KeepsStart
      <4>1. Listings(adapter) = {"transfer"} /\ ~include
        BY <2>3, <3>2, AdaptersAssumption DEF KeepsStart, TypeOK, Listings
      <4>2. NextKeys = NoKeys /\ NextApprovalTo = Absent
        BY <2>3, <4>1 DEF NextKeys, NoKeys, NextApprovalTo
      <4> QED
        BY <2>3, <4>2 DEF NextCursor
    <3> QED
      BY <3>1, <3>2
  <2>4. cursor' = NextCursor
    BY <1>1 DEF LoadPage
  <2>5. PagesOnce'
    BY <2>1, <2>2 DEF PagesOnce
  <2>6. Positions'
    BY <2>1, <2>2, <2>3, <2>4, CursorFields DEF Positions
  <2> QED
    BY <2>5, <2>6 DEF PageInv
<1>2. CASE ToggleApprovals
  BY <1>2 DEF ToggleApprovals, historyVars, PageInv, Positions, PagesOnce
<1>3. CASE NewBlock
  BY <1>3 DEF NewBlock, historyVars, PageInv, Positions, PagesOnce
<1>4. CASE UNCHANGED vars
  BY <1>4 DEF vars, historyVars, PageInv, Positions, PagesOnce
<1> QED
  BY <1>1, <1>2, <1>3, <1>4 DEF Next

LEMMA AlwaysPages == Spec => [](TypeOK /\ PageInv)
<1>1. Init => PageInv
  BY DEF Init, PageInv, Positions, PagesOnce
<1> QED
  BY <1>1, InitType, NextType, NextPageInv, PTL DEF Spec

(* A token history never repeats or skips a page of a listing, however the *)
(* listings' lengths differ and whenever approvals are switched on or off. *)
THEOREM NoPageTwice == Spec => []PagesOnce
<1>1. PageInv => PagesOnce
  BY DEF PageInv
<1> QED
  BY <1>1, AlwaysPages, PTL

-----------------------------------------------------------------------------
(* The approval windows.                                                   *)

(* With approvals switched on throughout, the cursor names the block before*)
(* the last window or that window starts at block 0.                       *)
ScanInv ==
  /\ ~begun => cursor = None /\ scanned = <<>> /\ modes = {}
  /\ begun => modes # {}
  /\ FALSE \notin modes /\ begun /\ adapter \in Windowed =>
       /\ scanned # <<>>
       /\ IF cursor # None /\ cursor.approvalTo # None
            THEN /\ cursor.approvalTo \in Nat
                 /\ cursor.approvalTo = scanned[Len(scanned)].first - 1
            ELSE scanned[Len(scanned)].first = 0
  /\ WindowsAdjoin

(* A page of a steady history reads the window before the last one, or the *)
(* newest blocks if it is the first page, or nothing more.                 *)
LEMMA NextScanInv == TypeOK /\ ScanInv /\ [Next]_vars => ScanInv'
<1> SUFFICES ASSUME TypeOK, ScanInv, [Next]_vars PROVE ScanInv'
  OBVIOUS
<1>1. CASE LoadPage
  <2>1. begun' /\ modes' = modes \cup {include} /\ cursor' = NextCursor
        /\ adapter' = adapter /\ (begun => cursor # None)
    BY <1>1 DEF LoadPage
  <2>2. modes' # {}
    BY <2>1
  <2>3. ASSUME FALSE \notin modes', ~ReadsApprovals
        PROVE  /\ WindowsAdjoin'
               /\ adapter \in Windowed =>
                    /\ begun /\ FALSE \notin modes /\ scanned' = scanned
                    /\ cursor # None /\ cursor.approvalTo = None /\ NextApprovalTo = None
    <3>1. include /\ FALSE \notin modes
      BY <2>1, <2>3 DEF TypeOK
    <3>2. scanned' = scanned
      BY <1>1, <2>3 DEF LoadPage
    <3>3. ASSUME adapter \in Windowed
          PROVE  begun /\ cursor # None /\ cursor.approvalTo = None /\ NextApprovalTo = None
      BY <2>3, <3>1, <3>3 DEF ReadsApprovals, ApprovalTo, ScanInv, NextApprovalTo
    <3> QED
      BY <3>1, <3>2, <3>3 DEF ScanInv, WindowsAdjoin
  <2>4. ASSUME FALSE \notin modes', ReadsApprovals
        PROVE  /\ WindowsAdjoin'
               /\ scanned' # <<>> /\ NextApprovalTo = NextWindow
               /\ IF NextWindow # None
                    THEN NextWindow = scanned'[Len(scanned')].first - 1
                    ELSE scanned'[Len(scanned')].first = 0
    <3>1. include /\ FALSE \notin modes /\ adapter \in Windowed /\ ApprovalTo # None
      BY <2>1, <2>4 DEF TypeOK, ReadsApprovals
    <3>2. scanned' = Append(scanned, ApprovalRange) /\ scanned \in Seq(Window)
          /\ ApprovalRange \in Window
      BY <1>1, <2>4, RangeIsWindow DEF LoadPage, TypeOK
    <3>3. Len(scanned) \in Nat /\ Len(scanned') = Len(scanned) + 1
          /\ scanned'[Len(scanned')] = ApprovalRange
          /\ \A i \in 1..Len(scanned) : scanned'[i] = scanned[i]
      BY <3>2
    <3>4. NextApprovalTo = NextWindow
      BY <2>4, <3>1 DEF NextApprovalTo
    <3>5. ApprovalRange.first \in Nat
      BY <3>2 DEF Window
    <3>6. scanned # <<>> => ApprovalRange.last = scanned[Len(scanned)].first - 1
      <4>1. SUFFICES ASSUME scanned # <<>>
                     PROVE  ApprovalRange.last = scanned[Len(scanned)].first - 1
        OBVIOUS
      <4>2. begun /\ cursor # None
        BY <2>1, <4>1 DEF ScanInv, TypeOK
      <4>3. cursor.approvalTo # None /\ ApprovalTo = cursor.approvalTo
        BY <3>1, <4>2 DEF ApprovalTo
      <4>4. /\ cursor.approvalTo \in Nat
            /\ cursor.approvalTo = scanned[Len(scanned)].first - 1
        BY <3>1, <4>2, <4>3 DEF ScanInv
      <4>5. ApprovalTo # Absent
        BY <4>3, <4>4, NoneAssumption, Zenon
      <4> QED
        BY <4>3, <4>4, <4>5 DEF ApprovalRange, LastBlock
    <3>7. WindowsAdjoin'
      <4>1. SUFFICES ASSUME NEW i \in 1..(Len(scanned') - 1)
                     PROVE  scanned'[i + 1].last = scanned'[i].first - 1
        BY DEF WindowsAdjoin
      <4>2. CASE i = Len(scanned)
        <5>1. scanned # <<>> /\ scanned'[i + 1] = ApprovalRange /\ scanned'[i] = scanned[i]
          BY <3>2, <3>3, <4>1, <4>2
        <5> QED
          BY <3>6, <4>2, <5>1
      <4>3. CASE i # Len(scanned)
        <5>1. i \in 1..(Len(scanned) - 1) /\ i \in 1..Len(scanned) /\ i + 1 \in 1..Len(scanned)
          BY <3>3, <4>1, <4>3
        <5>2. scanned[i + 1].last = scanned[i].first - 1
          BY <3>1, <5>1 DEF ScanInv, WindowsAdjoin
        <5> QED
          BY <3>3, <5>1, <5>2
      <4> QED
        BY <4>2, <4>3
    <3>8. scanned' # <<>>
      BY <3>2
    <3> QED
      BY <3>3, <3>4, <3>5, <3>7, <3>8 DEF NextWindow
  <2>5. ASSUME FALSE \notin modes', adapter \in Windowed
        PROVE  /\ scanned' # <<>>
               /\ IF NextCursor # None /\ NextCursor.approvalTo # None
                    THEN /\ NextCursor.approvalTo \in Nat
                         /\ NextCursor.approvalTo = scanned'[Len(scanned')].first - 1
                    ELSE scanned'[Len(scanned')].first = 0
    <3>1. NextCursor = None => NextApprovalTo \in {None, Absent}
      BY NextCursorType
    <3>2. CASE ReadsApprovals
      <4>1. NextApprovalTo = NextWindow /\ NextWindow # Absent
            /\ (NextWindow # None => NextWindow \in Nat)
        BY <2>4, <2>5, <3>2, RangeIsWindow, NoneAssumption, Zenon
      <4>2. NextCursor # None => NextCursor.approvalTo = NextWindow
        BY <4>1, CursorFields
      <4>3. NextCursor = None => NextWindow = None
        BY <3>1, <4>1
      <4> QED
        BY <2>4, <2>5, <3>2, <4>1, <4>2, <4>3
    <3>3. CASE ~ReadsApprovals
      BY <2>3, <2>5, <3>3, CursorFields DEF ScanInv
    <3> QED
      BY <3>2, <3>3
  <2>6. (FALSE \notin modes' => WindowsAdjoin') /\ (FALSE \in modes' => WindowsAdjoin')
    BY <2>3, <2>4 DEF WindowsAdjoin
  <2> QED
    BY <2>1, <2>2, <2>5, <2>6 DEF ScanInv
<1>2. CASE ToggleApprovals
  BY <1>2 DEF ToggleApprovals, historyVars, ScanInv, WindowsAdjoin
<1>3. CASE NewBlock
  BY <1>3 DEF NewBlock, historyVars, ScanInv, WindowsAdjoin
<1>4. CASE UNCHANGED vars
  BY <1>4 DEF vars, historyVars, ScanInv, WindowsAdjoin
<1> QED
  BY <1>1, <1>2, <1>3, <1>4 DEF Next

LEMMA AlwaysScan == Spec => [](TypeOK /\ ScanInv)
<1>1. Init => ScanInv
  BY DEF Init, ScanInv, WindowsAdjoin
<1> QED
  BY <1>1, InitType, NextType, NextScanInv, PTL DEF Spec

(* Whatever the window size and however the chain grows, the approval scan *)
(* neither skips nor repeats a block while approvals stay switched on.     *)
THEOREM NoBlockSkipped == Spec => []WindowsAdjoin
<1>1. ScanInv => WindowsAdjoin
  BY DEF ScanInv
<1> QED
  BY <1>1, AlwaysScan, PTL

-----------------------------------------------------------------------------
(* The end.                                                                *)

Received(l, n) == \E i \in 1..Len(got[l]) : got[l][i] = n

(* A page that was not received is still to come.                          *)
ToCome(l, n) == cursor # None /\ cursor.keys[l] # None /\ cursor.keys[l] <= n

NothingLost ==
  begun => \A l \in Listings(adapter) \ {"approvals"} :
             \A n \in 1..pages[l] : Received(l, n) \/ ToCome(l, n)

LEMMA NextNothingLost == TypeOK /\ ScanInv /\ NothingLost /\ [Next]_vars => NothingLost'
<1> SUFFICES ASSUME TypeOK, ScanInv, NothingLost, [Next]_vars PROVE NothingLost'
  OBVIOUS
<1>1. CASE LoadPage
  <2>1. SUFFICES ASSUME NEW l \in Listings(adapter) \ {"approvals"}, NEW n \in 1..pages[l]
                 PROVE  Received(l, n)' \/ ToCome(l, n)'
    BY <1>1 DEF LoadPage, NothingLost
  <2>2. got[l] \in Seq(Nat \ {0}) /\ Len(got[l]) \in Nat /\ pages[l] \in Nat /\ n \in Nat
    BY DEF TypeOK
  <2>3. (begun => cursor # None) /\ cursor' = NextCursor
    BY <1>1 DEF LoadPage
  <2>4. CASE l \in Asked
    <3>1. got'[l] = Append(got[l], PageOf(l)) /\ PageOf(l) \in Nat
      BY <1>1, <2>4, ListingsAreIn DEF LoadPage, PageOf
    <3>2. Received(l, n) \/ n = PageOf(l) => Received(l, n)'
      <4>1. Len(got'[l]) = Len(got[l]) + 1 /\ got'[l][Len(got'[l])] = PageOf(l)
            /\ \A i \in 1..Len(got[l]) : got'[l][i] = got[l][i] /\ i \in 1..Len(got'[l])
        BY <2>2, <3>1
      <4>2. Len(got'[l]) \in 1..Len(got'[l])
        BY <2>2, <4>1
      <4> QED
        BY <4>1, <4>2 DEF Received
    <3>3. n < PageOf(l) => Received(l, n)
      <4>1. SUFFICES ASSUME n < PageOf(l) PROVE Received(l, n)
        OBVIOUS
      <4>2. cursor # None /\ cursor.keys[l] # None /\ PageOf(l) = cursor.keys[l]
        BY <2>1, <4>1 DEF PageOf, Keys, NoKeys
      <4>3. begun
        BY <4>2 DEF ScanInv
      <4>4. ~ToCome(l, n)
        BY <2>2, <3>1, <4>1, <4>2 DEF ToCome
      <4> QED
        BY <4>3, <4>4 DEF NothingLost
    <3>4. n > PageOf(l) => ToCome(l, n)'
      <4>1. SUFFICES ASSUME n > PageOf(l) PROVE ToCome(l, n)'
        OBVIOUS
      <4>2. NextKeys[l] = PageOf(l) + 1 /\ NextKeys[l] # None
        BY <2>2, <2>4, <3>1, <4>1, NoneAssumption DEF NextKeys
      <4>3. NextKeys # NoKeys
        BY <4>2 DEF NoKeys
      <4>4. NextCursor # None
        BY <4>3, NextCursorType
      <4> QED
        BY <2>2, <2>3, <3>1, <4>1, <4>2, <4>4, CursorFields DEF ToCome
    <3> QED
      BY <2>2, <3>1, <3>2, <3>3, <3>4
  <2>5. CASE l \notin Asked
    <3>1. got'[l] = got[l]
      BY <1>1, <2>5 DEF LoadPage
    <3>2. Started /\ Keys[l] = None
      BY <2>5, ListingsAreIn DEF Asked
    <3>3. ~ToCome(l, n)
      BY <3>2 DEF Started, Keys, ToCome
    <3>4. begun
      BY <3>2 DEF ScanInv, Started
    <3> QED
      BY <3>1, <3>3, <3>4 DEF NothingLost, Received
  <2> QED
    BY <2>4, <2>5
<1>2. CASE ToggleApprovals
  BY <1>2 DEF ToggleApprovals, historyVars, NothingLost, Received, ToCome
<1>3. CASE NewBlock
  BY <1>3 DEF NewBlock, historyVars, NothingLost, Received, ToCome
<1>4. CASE UNCHANGED vars
  BY <1>4 DEF vars, historyVars, NothingLost, Received, ToCome
<1> QED
  BY <1>1, <1>2, <1>3, <1>4 DEF Next

(* A history that ends is whole: every page of its transfers was received  *)
(* and, with approvals on throughout, the event log was read to block 0.   *)
THEOREM EndsWithAll == Spec => []EndIsWhole
<1>1. Init => NothingLost
  BY DEF Init, NothingLost
<1>2. TypeOK /\ ScanInv /\ NothingLost => EndIsWhole
  <2> SUFFICES ASSUME TypeOK, ScanInv, NothingLost, begun, cursor = None PROVE EndIsWhole
    BY DEF EndIsWhole
  <2>1. \A l \in Listings(adapter) \ {"approvals"} : \A n \in 1..pages[l] : Received(l, n)
    BY DEF NothingLost, ToCome
  <2>2. ASSUME modes = {TRUE}, adapter \in Windowed
        PROVE  scanned # <<>> /\ scanned[Len(scanned)].first = 0
    BY <2>2 DEF ScanInv
  <2> QED
    BY <2>1, <2>2 DEF EndIsWhole, Received
<1> QED
  BY <1>1, <1>2, AlwaysScan, NextNothingLost, PTL DEF Spec
=============================================================================
