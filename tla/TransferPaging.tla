--------------------------- MODULE TransferPaging ---------------------------
(***************************************************************************)
(* One wallet's history paged through a provider adapter.  An adapter asks *)
(* one to three listings per page and folds their positions into a single  *)
(* cursor:                                                                 *)
(*   "alchemy"   token history: outgoing and incoming transfers, approvals *)
(*   "ankr"      token history: transfers, approvals                       *)
(*   "moralis"   token history: ERC-20, NFT and active-approval listings   *)
(*   "activity"  Alchemy's activity: outgoing and incoming transfers       *)
(* Alchemy and Ankr read approvals from the event log, a window of Lookback*)
(* blocks at a time, from the newest block back to block 0.                *)
(*                                                                         *)
(* A page is one action: a request that fails in the middle raises, keeps  *)
(* nothing and leaves the cursor to be tried again.                        *)
(***************************************************************************)
EXTENDS Integers, FiniteSets, Sequences

CONSTANTS
  Adapters,     \* the adapters in use
  MaxPages,     \* bound: pages of a listing
  MaxHead,      \* bound: the newest block
  Lookback,     \* _APPROVAL_LOOKBACK_BLOCKS
  MaxStamps,    \* block timestamps read per page
  Approvals,    \* bound: the blocks that may hold an approval
  None,         \* Python's None
  Absent        \* the cursor has no "approval_to"

ASSUME AdaptersAssumption == Adapters \subseteq {"alchemy", "ankr", "moralis", "activity"}
ASSUME MaxPagesAssumption == MaxPages \in Nat \ {0}
ASSUME MaxHeadAssumption == MaxHead \in Nat
ASSUME LookbackAssumption == Lookback \in Nat \ {0}
ASSUME MaxStampsAssumption == MaxStamps \in Nat
ASSUME ApprovalsAssumption == Approvals \subseteq Nat
ASSUME NoneAssumption == None \notin Nat /\ Absent \notin Nat \cup {None}

Listings(a) ==
  CASE a = "ankr" -> {"transfer"}
    [] a = "moralis" -> {"erc20", "nft", "approvals"}
    [] OTHER -> {"from", "to"}

Windowed == {"alchemy", "ankr"}

\* The decoded cursor: a page number or None for each listing, whether the
\* listings were begun, where the next window ends, and Moralis' mode.
Cursors(a) ==
  [keys : [Listings(a) -> (Nat \ {0}) \cup {None}], started : BOOLEAN,
   approvalTo : Nat \cup {None, Absent}, mode : BOOLEAN]

ASSUME NoneIsNoCursor == \A a \in Adapters : None \notin Cursors(a)

Window == [first : Nat, last : Nat]

VARIABLES
  adapter,   \* the adapter answering
  pages,     \* [Listings -> pages of the listing]
  logs,      \* the blocks with an approval of the wallet
  head,      \* the newest block
  include,   \* _include_approvals, a check box the user may change
  begun,     \* a first page was loaded
  cursor,    \* the next_cursor of the last page
  got,       \* history: [Listings -> pages received, in order]
  scanned,   \* history: the windows read, in order
  found,     \* history: the blocks whose approvals were returned
  modes      \* history: the values include had when pages were loaded

historyVars == <<got, scanned, found, modes>>
vars == <<adapter, pages, logs, head, include, begun, cursor, historyVars>>

NoKeys == [l \in Listings(adapter) |-> None]

Init ==
  /\ adapter \in Adapters
  /\ pages \in [Listings(adapter) -> 1..MaxPages]
  /\ head \in 0..MaxHead
  /\ logs \in SUBSET {b \in Approvals : b <= head}
  /\ include \in BOOLEAN
  /\ begun = FALSE /\ cursor = None
  /\ got = [l \in Listings(adapter) |-> <<>>]
  /\ scanned = <<>> /\ found = {} /\ modes = {}

-----------------------------------------------------------------------------
(* The listings.                                                           *)

Keys == IF cursor = None THEN NoKeys ELSE cursor.keys
Started == cursor # None /\ cursor.started
ApprovalTo == IF cursor = None THEN Absent ELSE cursor.approvalTo

\* Moralis refuses a cursor of the other mode.
Accepts == cursor # None /\ adapter = "moralis" => cursor.mode = include

\* The listings this page asks for: all at first, then those with a position.
Asked ==
  {l \in Listings(adapter) :
     /\ l = "approvals" => include
     /\ Started => Keys[l] # None}

PageOf(l) == IF Keys[l] = None THEN 1 ELSE Keys[l]

NextKeys ==
  [l \in Listings(adapter) |->
     IF l \in Asked /\ PageOf(l) < pages[l] THEN PageOf(l) + 1 ELSE None]

-----------------------------------------------------------------------------
(* The approval scan.                                                      *)

ReadsApprovals == adapter \in Windowed /\ include /\ ApprovalTo # None

LastBlock == IF ApprovalTo = Absent THEN head ELSE ApprovalTo

\* _approval_block_range.
ApprovalRange ==
  [first |-> IF LastBlock < Lookback THEN 0 ELSE LastBlock - Lookback + 1,
   last |-> LastBlock]

\* Mutant: windows overlap by a block.
NextWindowOverlaps == IF ApprovalRange.first > 0 THEN ApprovalRange.first ELSE None

NextWindow == IF ApprovalRange.first > 0 THEN ApprovalRange.first - 1 ELSE None

\* The blocks whose logs eth_getLogs returns.
Logged == {b \in logs : ApprovalRange.first <= b /\ b <= ApprovalRange.last}

\* _load_block_timestamps asks for the timestamps of at most MaxStamps blocks
\* and passes over a request that fails; _map_approval_log drops the logs of
\* a block without one.
Returned == {s \in SUBSET Logged : Cardinality(s) <= MaxStamps}

-----------------------------------------------------------------------------
(* The page.                                                               *)

NextApprovalTo ==
  IF adapter \notin Windowed \/ ~include THEN Absent
  ELSE IF ReadsApprovals THEN NextWindow ELSE None

\* Mutant: the positions alone are kept, as the activity cursor does.
KeepsNoStart == FALSE

\* Whether the cursor says that the listings were begun: Ankr without
\* approvals hands out the bare page token, activity the two positions.
KeepsStart == adapter \in {"alchemy", "moralis"} \/ (adapter = "ankr" /\ include)

\* Mutant: the history ends with its transfers.
TransfersCursor ==
  IF NextKeys = NoKeys THEN None
  ELSE [keys |-> NextKeys, started |-> KeepsStart, approvalTo |-> NextApprovalTo,
        mode |-> include]

\* Mutant: a finished approval scan is still written into the cursor.
ScanCursor ==
  IF NextKeys = NoKeys /\ NextApprovalTo = Absent THEN None
  ELSE [keys |-> NextKeys, started |-> KeepsStart, approvalTo |-> NextApprovalTo,
        mode |-> include]

NextCursor ==
  IF NextKeys = NoKeys /\ NextApprovalTo \in {None, Absent} THEN None
  ELSE [keys |-> NextKeys, started |-> KeepsStart, approvalTo |-> NextApprovalTo,
        mode |-> include]

LoadPage ==
  /\ begun => cursor # None
  /\ Accepts
  /\ begun' = TRUE
  /\ cursor' = NextCursor
  /\ got' = [l \in Listings(adapter) |->
               IF l \in Asked THEN Append(got[l], PageOf(l)) ELSE got[l]]
  /\ IF ReadsApprovals
       THEN /\ scanned' = Append(scanned, ApprovalRange)
            /\ \E s \in Returned : found' = found \cup s
       ELSE UNCHANGED <<scanned, found>>
  /\ modes' = modes \cup {include}
  /\ UNCHANGED <<adapter, pages, logs, head, include>>

\* The check box stays editable between pages.
ToggleApprovals ==
  /\ include' = ~include
  /\ UNCHANGED <<adapter, pages, logs, head, begun, cursor, historyVars>>

NewBlock ==
  /\ head < MaxHead /\ head' = head + 1
  /\ \E s \in SUBSET (Approvals \cap {head'}) : logs' = logs \cup s
  /\ UNCHANGED <<adapter, pages, include, begun, cursor, historyVars>>

Next == LoadPage \/ ToggleApprovals \/ NewBlock

Spec == Init /\ [][Next]_vars

-----------------------------------------------------------------------------
(* Correctness.                                                            *)

TypeOK ==
  /\ adapter \in Adapters
  /\ pages \in [Listings(adapter) -> Nat \ {0}]
  /\ head \in Nat /\ logs \subseteq 0..head
  /\ include \in BOOLEAN /\ begun \in BOOLEAN
  /\ cursor \in Cursors(adapter) \cup {None}
  /\ got \in [Listings(adapter) -> Seq(Nat \ {0})]
  /\ scanned \in Seq(Window)
  /\ found \subseteq logs
  /\ modes \subseteq BOOLEAN

(* "Completed transfer pagination no longer restarts while older approval  *)
(* windows continue" (CHANGELOG.md:722): a token history delivers the pages*)
(* of each listing one after the other and none twice, also when one       *)
(* listing ends before another and when approvals are switched on or off   *)
(* between pages.                                                          *)
PagesOnce ==
  adapter # "activity" =>
    \A l \in Listings(adapter) : \A i \in 1..Len(got[l]) : got[l][i] = i

(* While approvals stay switched on, each window ends right before the one *)
(* read before it, although new blocks arrive between pages: no block of   *)
(* the approval history is left out or read twice.                         *)
WindowsAdjoin ==
  FALSE \notin modes =>
    \A i \in 1..(Len(scanned) - 1) : scanned[i + 1].last = scanned[i].first - 1

(* A history without a next page has delivered every page of every listing *)
(* of transfers and, if approvals were switched on throughout, has read    *)
(* the event log back to block 0.  The activity cursor forgets which       *)
(* listing ended and repeats its pages, but loses none.                    *)
EndIsWhole ==
  begun /\ cursor = None =>
    /\ \A l \in Listings(adapter) \ {"approvals"} :
         \A n \in 1..pages[l] : \E i \in 1..Len(got[l]) : got[l][i] = n
    /\ modes = {TRUE} /\ adapter \in Windowed =>
         scanned # <<>> /\ scanned[Len(scanned)].first = 0

(* "Never silently truncate, discard, or replace live data" (ROADMAP.md:51)*)
(* A history that ends without an error, with approvals switched on        *)
(* throughout, returned every approval of the blocks it read.              *)
ApprovalsAreWhole ==
  begun /\ cursor = None /\ modes = {TRUE} /\ adapter \in Windowed =>
    {b \in logs : b <= scanned[1].last} \subseteq found

(* The user keeps pressing Next, with the check box either way.            *)
LiveSpec == Spec /\ SF_vars(LoadPage)

(* Paging comes to an end, even for the activity cursor, which ends when   *)
(* its two listings happen to end together, and for approvals switched on  *)
(* and off between pages - unless the check box stays where Moralis refuses*)
(* the cursor.                                                             *)
PagingEnds == <>(begun /\ cursor = None) \/ <>[]~Accepts
=============================================================================
