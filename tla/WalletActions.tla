--------------------------- MODULE WalletActions ---------------------------
(***************************************************************************)
(* Wallet actions: WalletActionNormalizer turns the saved evidence of one  *)
(* transaction - receipt, decoded call and events, internal calls - into an*)
(* ordered list of actions, with RobinhoodBridgeIntelligence as one of its *)
(* rules.  The evidence is put together piece by piece, then normalized in *)
(* one step.  Amounts, symbols and summaries are left out: an asset is the *)
(* contract it belongs to, and a movement is known by its evidence.  The   *)
(* list is the set of its actions, each of which knows its place in it.    *)
(***************************************************************************)
EXTENDS Integers, Sequences, FiniteSets

CONSTANTS
  Actor,        \* the sender of the transaction
  Other,        \* any other account or contract
  TokenAddresses,  \* token contracts
  Gateway,      \* a canonical bridge gateway of the chain
  ArbSys,       \* the message precompile of Robinhood
  Created,      \* a contract created by the transaction
  Nobody,       \* no address, no name, no status
  MaxEvidence   \* bound: decoded events and internal calls together

ASSUME EvidenceBoundAssumption == MaxEvidence \in Nat

CallNames == {"approve", "transfer", "swapExact", "outboundTransfer", "sendTxToL1"}
Native == "native"
NetworkNames == {"ethereum", "robinhood"}
\* TransferSingle and TransferBatch take the same rule.
TransferEvents == {"Transfer"}
ApprovalEvents == {"Approval", "ApprovalForAll"}

\* The events of a bridge: chain, name, stage.
EventSemantics ==
  {<<"ethereum", "DepositInitiated", "initiated">>, <<"ethereum", "WithdrawalFinalized", "finalized">>,
   <<"robinhood", "DepositFinalized", "finalized">>, <<"robinhood", "WithdrawalInitiated", "initiated">>}

\* An event that could not be decoded has no name.
LogEvents ==
  [name : {"Transfer"}, at : TokenAddresses, from : {Actor, Other}, to : {Actor, Other}]
    \cup [name : {"ApprovalForAll", Nobody}, at : TokenAddresses, from : {Actor}, to : {Other}]
    \cup [name : {s[2] : s \in EventSemantics}, at : {Gateway, Other}, from : {Actor}, to : {Other}]

\* A frame below the root: a delegate call runs in the caller's account and
\* repeats its value, as both trace formats report it.
Frames ==
  [kind : {"call"}, from : {Other}, to : {Actor}, created : {Nobody}, value : BOOLEAN, failed : BOOLEAN]
    \cup [kind : {"delegatecall"}, from : {Other}, to : TokenAddresses, created : {Nobody},
          value : BOOLEAN, failed : {FALSE}]
    \cup [kind : {"create"}, from : {Other}, to : {Nobody}, created : {Created},
          value : BOOLEAN, failed : BOOLEAN]

\* A receipt names a created contract where the transaction names no target.
Heads ==
  {h \in [chain : NetworkNames, to : {Other, Gateway, ArbSys, Nobody}, created : {Created, Nobody},
          value : BOOLEAN, status : {"success", "failed", "unknown"},
          call : CallNames \cup {Nobody}] :
     /\ h.created = Nobody <=> h.to # Nobody
     /\ h.to = Nobody => h.call = Nobody
     /\ h.to = ArbSys => h.call = "sendTxToL1"
     /\ h.to = Gateway => h.call \in {"outboundTransfer", Nobody}}

ASSUME NobodyAssumption == Nobody \notin Heads \cup CallNames

VARIABLES
  head,     \* transaction and receipt, with the decoded call
  events,   \* the decoded events, in log order
  traced,   \* a trace was loaded
  frames,   \* its calls below the root, in order
  derived   \* the actions, or Nobody before they are derived

actionVars == <<head, events, traced, frames, derived>>

ActionsInit ==
  head = Nobody /\ events = <<>> /\ traced = FALSE /\ frames = <<>> /\ derived = Nobody

-----------------------------------------------------------------------------
(* The parts of an action that the properties tell apart.                  *)

Direction(from, to) ==
  IF from = Actor THEN "out" ELSE IF to = Actor THEN "in" ELSE "neutral"

\* The place is the turn of the rule in normalize, then the turn in the rule.
Act(place, kind, status, assets, cites) ==
  [place |-> place, kind |-> kind, status |-> status, assets |-> assets, cites |-> cites,
   stage |-> Nobody]

Before(p, q) == p[1] < q[1] \/ (p[1] = q[1] /\ p[2] < q[2])

Asset(direction, of) == [direction |-> direction, of |-> of]

\* The root frame, when a trace was loaded, is the transaction itself.
RootFrame ==
  [kind |-> IF head.to = Nobody THEN "create" ELSE "call", from |-> Actor, to |-> head.to,
   created |-> head.created, value |-> head.value, failed |-> head.status = "failed"]
TraceCalls == IF traced THEN <<RootFrame>> \o frames ELSE <<>>

DeploymentActions ==
  IF head.to = Nobody \/ head.created # Nobody
    THEN {Act(<<1, 0>>, "deployment", head.status, <<>>, {<<"receipt", 0>>})} ELSE {}

NativeValueActions ==
  IF head.value
    THEN {Act(<<2, 0>>, "transfer", head.status, <<Asset("out", Native)>>, {<<"value", 0>>})}
    ELSE {}

-----------------------------------------------------------------------------
(* RobinhoodBridgeIntelligence.                                            *)

IsGateway(address) == address = Gateway

Bridging(i, stage, cite) ==
  [place |-> <<3, i>>, kind |-> "bridge", status |-> head.status,
   assets |-> <<Asset("neutral", "bridged")>>, cites |-> {cite}, stage |-> stage]

StageOf(e) == {s[3] : s \in {t \in EventSemantics : t[1] = head.chain /\ t[2] = e.name}}

IsBridgeEvent(e) == StageOf(e) # {} /\ IsGateway(e.at)

EventObservations ==
  {Bridging(i, CHOOSE s \in StageOf(events[i]) : TRUE, <<"log", i>>) :
     i \in {j \in DOMAIN events : IsBridgeEvent(events[j])}}

CallObservation ==
  IF \/ head.chain = "robinhood" /\ head.to = ArbSys /\ head.call = "sendTxToL1"
     \/ head.call = "outboundTransfer" /\ IsGateway(head.to)
    THEN {Bridging(0, "initiated", <<"call", 0>>)} ELSE {}

\* Mutant: the call is observed beside its events.
BothObservations == EventObservations \cup CallObservation

\* The call speaks only where no event does.
BridgeObservations ==
  IF EventObservations # {} THEN EventObservations ELSE CallObservation

-----------------------------------------------------------------------------
(* Decoded events and the decoded call.                                    *)

EventAction(i) ==
  LET e == events[i]
  IN  IF e.name \in TransferEvents
        THEN Act(<<4, i>>, "transfer", head.status, <<Asset(Direction(e.from, e.to), e.at)>>,
                 {<<"log", i>>})
        ELSE Act(<<4, i>>, "approval", head.status, <<Asset("neutral", e.at)>>, {<<"log", i>>})

EventActions ==
  {EventAction(i) : i \in {j \in DOMAIN events : events[j].name \in TransferEvents \cup ApprovalEvents}}

CallAct(kind, assets) == {Act(<<5, 0>>, kind, head.status, assets, {<<"call", 0>>})}

CallAction ==
  CASE head.call = Nobody -> {}
    [] head.call = "approve" -> CallAct("approval", <<Asset("neutral", head.to)>>)
    [] head.call = "transfer" -> CallAct("transfer", <<Asset("out", head.to)>>)
    [] OTHER -> CallAct("contract_call", <<>>)

HasDirection(a, direction) == \E i \in DOMAIN a.assets : a.assets[i].direction = direction

Transfers(acts, direction) ==
  {a \in acts : a.kind = "transfer" /\ HasDirection(a, direction)}

AssetsOf(acts) == UNION {{a.assets[k].of : k \in DOMAIN a.assets} : a \in acts}

\* One outgoing and one incoming transfer of different assets are a swap, which
\* stands where the first of them stood.
SimpleSwap(acts) ==
  /\ Cardinality(Transfers(acts, "out")) = 1 /\ Cardinality(Transfers(acts, "in")) = 1
  /\ Cardinality(AssetsOf(Transfers(acts, "out") \cup Transfers(acts, "in"))) >= 2

SwapOf(out, in) ==
  Act(IF Before(out.place, in.place) THEN out.place ELSE in.place, "swap", head.status,
      out.assets \o in.assets, out.cites \cup in.cites)

\* Mutant: the transfers stay beside their swap.
SwapBeside(acts) ==
  IF ~SimpleSwap(acts) THEN acts
  ELSE acts \cup {SwapOf(out, in) : out \in Transfers(acts, "out"), in \in Transfers(acts, "in")}

CollapseSwap(acts) ==
  IF ~SimpleSwap(acts) THEN acts
  ELSE (acts \ (Transfers(acts, "out") \cup Transfers(acts, "in")))
         \cup {SwapOf(out, in) : out \in Transfers(acts, "out"), in \in Transfers(acts, "in")}

-----------------------------------------------------------------------------
(* Internal calls.                                                         *)

DuplicatesTopLevelValue(k) ==
  LET f == TraceCalls[k] IN k = 1 /\ f.from = Actor /\ f.to = head.to /\ f.value = head.value

\* A frame's own error marks it failed.
FrameStatus(f) == IF f.failed THEN "failed" ELSE head.status

\* A created contract is one deployment, unless the receipt has shown it.
FrameActions(k) ==
  LET f == TraceCalls[k]
      shown == (head.to = Nobody /\ head.created = f.created)
               \/ \E j \in 1..(k - 1) : TraceCalls[j].created = f.created
      cite == {<<"trace", k>>}
      receiver == IF f.to = Nobody THEN f.created ELSE f.to
  IN  (IF f.created # Nobody /\ ~shown
         THEN {Act(<<6, 2 * k>>, "deployment", FrameStatus(f), <<>>, cite)} ELSE {})
      \cup (IF f.value /\ ~DuplicatesTopLevelValue(k)
              THEN {Act(<<6, (2 * k) + 1>>, "transfer", FrameStatus(f),
                        <<Asset(Direction(f.from, receiver), Native)>>, cite)}
              ELSE {})

TraceActions == UNION {FrameActions(k) : k \in DOMAIN TraceCalls}

UnknownAction == Act(<<7, 0>>, "unknown", head.status, <<>>, {<<"call", 0>>})

\* normalize, rule by rule.
Normalized ==
  LET observed == BridgeObservations
      collapsed ==
        CollapseSwap(DeploymentActions \cup NativeValueActions \cup observed \cup EventActions)
      called == IF EventActions = {} /\ observed = {} THEN CallAction ELSE {}
      all == collapsed \cup called \cup TraceActions
  IN  IF all = {} THEN {UnknownAction} ELSE all

-----------------------------------------------------------------------------

ReadReceipt ==
  /\ head = Nobody /\ head' \in Heads
  /\ UNCHANGED <<events, traced, frames, derived>>

\* A failed transaction leaves no logs.
AddEvent ==
  /\ head # Nobody /\ derived = Nobody /\ ~traced
  /\ Len(events) < MaxEvidence
  /\ head.status = "success"
  /\ \E e \in LogEvents : events' = Append(events, e)
  /\ UNCHANGED <<head, traced, frames, derived>>

LoadedTrace ==
  /\ head # Nobody /\ derived = Nobody /\ ~traced /\ traced' = TRUE
  /\ UNCHANGED <<head, events, frames, derived>>

AddFrame ==
  /\ traced /\ derived = Nobody
  /\ Len(events) + Len(frames) < MaxEvidence
  /\ \E f \in Frames : frames' = Append(frames, f)
  /\ UNCHANGED <<head, events, traced, derived>>

Normalize ==
  /\ head # Nobody /\ derived = Nobody /\ derived' = Normalized
  /\ UNCHANGED <<head, events, traced, frames>>

ActionsNext == ReadReceipt \/ AddEvent \/ LoadedTrace \/ AddFrame \/ Normalize

ActionsSpec == ActionsInit /\ [][ActionsNext]_actionVars

-----------------------------------------------------------------------------
(* Correctness.                                                            *)

\* What moved, read off the evidence without the rules.
Movements ==
  {<<"value", 0>> : v \in {b \in {head.value} : b}}
    \cup {<<"log", i>> : i \in {j \in DOMAIN events : events[j].name \in TransferEvents}}
    \cup {<<"trace", k + 1>> : k \in {j \in DOMAIN frames : frames[j].value}}
    \cup {<<"call", 0>> : v \in {b \in {head.call} :
            /\ b = "transfer"
            /\ \A i \in DOMAIN events : /\ events[i].name \notin TransferEvents \cup ApprovalEvents
                                      /\ ~IsBridgeEvent(events[i])}}

MovesAssets(a) == a.kind \in {"transfer", "swap"}

(* "Every summary links back to its source call, event, or internal        *)
(* transfer" (ROADMAP.md:313): of all that the evidence says was moved,    *)
(* each movement is in exactly one transfer or swap, and these contain     *)
(* nothing else, however native value, events, a swap, the root of a trace *)
(* and the decoded call describe the same transaction.                     *)
EveryMovementOnce ==
  derived # Nobody
    => /\ \A ref \in Movements :
            Cardinality({a \in derived : MovesAssets(a) /\ ref \in a.cites}) = 1
       /\ \A a \in derived : MovesAssets(a) =>
            /\ a.cites \subseteq Movements
            /\ Cardinality(a.cites) = Len(a.assets)

(* A bridge transfer is said to be initiated or finalized once, by the     *)
(* canonical gateway's own event where there is one, and a call alone never*)
(* says that it is finalized: it "does not infer completion on the other   *)
(* chain" (ARCHITECTURE.md:53).                                            *)
BridgeIsObserved ==
  derived # Nobody =>
    LET bridging == {a \in derived : a.kind = "bridge"}
        logged == {<<s, {<<"log", i>>}>> : i \in DOMAIN events, s \in {"initiated", "finalized"}}
    IN  /\ \A a, b \in bridging : a.stage = b.stage /\ a.cites = b.cites => a = b
        /\ (\E a \in bridging : a.stage = "finalized" \/ <<a.stage, a.cites>> \in logged)
             => \A a \in bridging : <<a.stage, a.cites>> \in logged

(* "Map call trees, contract creations, native internal transfers"         *)
(* (ROADMAP.md:295): an internal transfer is shown only for a frame that   *)
(* moved value between two accounts.  It does not hold.                    *)
InternalTransfersAreReal ==
  derived # Nobody =>
    \A a \in derived : \A k \in DOMAIN frames :
      a.kind = "transfer" /\ a.cites = {<<"trace", k + 1>>} => frames[k].kind # "delegatecall"
=============================================================================
