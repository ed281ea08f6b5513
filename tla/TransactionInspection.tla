----------------------- MODULE TransactionInspection -----------------------
(***************************************************************************)
(* The transaction inspector: one inspection loads the receipt of a        *)
(* selected activity row, resolves the proxy its target is, collects the   *)
(* ABIs of its contracts, loads the internal trace, decodes, derives wallet*)
(* actions and asks the explorer for context.  Every read and every save is*)
(* a transaction of its own; remote requests lie between them.  Several    *)
(* processes may share the database; each runs one inspection at a time in *)
(* the background while the user selects other rows and edits the ABIs.    *)
(*                                                                         *)
(* A mined transaction and the state of its block do not change, so a      *)
(* receipt is its transaction and a proxy has one answer per block.        *)
(***************************************************************************)
EXTENDS Integers, FiniteSets

CONSTANTS
  Processes,       \* running applications on one database
  Txs,             \* transactions of the activity list
  Contracts,       \* contract addresses
  ABIs,            \* contents of contract ABIs
  Target,          \* [Txs -> the contract called]
  Emitters,        \* [Txs -> the contracts that logged an event]
  Reverted,        \* the transactions that failed
  Blocks,          \* [Txs -> block number]
  Implementation,  \* [<<contract, block>> -> implementation or None]
  EndpointCount,   \* the JSON-RPC endpoints, numbered in the order they are tried
  Serves,          \* [Endpoints -> the trace dialects the endpoint serves]
  Forces,          \* values of force_refresh in use
  MaxEdits,        \* bound: changes of the ABI list
  MaxRestarts,     \* bound: processes that end
  None             \* Python's None

Places == {<<Target[t], Blocks[t]>> : t \in Txs}
Endpoints == 1..EndpointCount
Dialects == {"debug", "parity"}

ASSUME InputsAssumption ==
  /\ Target \in [Txs -> Contracts] /\ Emitters \in [Txs -> SUBSET Contracts]
  /\ Reverted \subseteq Txs /\ Forces \subseteq BOOLEAN
  /\ Implementation \in [Places -> Contracts \cup {None}]
ASSUME EndpointsAssumption ==
  EndpointCount \in Nat /\ Serves \in [Endpoints -> SUBSET Dialects]
ASSUME BoundsAssumption == MaxEdits \in Nat /\ MaxRestarts \in Nat
ASSUME NoneAssumption ==
  None \notin Contracts \cup ABIs \cup Txs \cup Dialects
    \cup {"unknown", "complete", "partial", "unsupported", "unavailable",
          "resolved", "not_proxy", "answered"}

TraceStatus == {"complete", "partial", "unsupported", "unavailable"}
ProxyStatus == {"resolved", "not_proxy", "unavailable"}
\* Context found, not found and not supported are kept alike.
EnrichmentStatus == {"answered", "unavailable"}
Registries == SUBSET (Contracts \X ABIs)
Decodings == [registries : Registries, revert : BOOLEAN]
ASSUME NoDecodingAssumption == None \notin Decodings
Actions == [registries : Registries, trace : TraceStatus]

VARIABLES
  ledger,       \* ledger_transactions: the transactions Activity has saved
  receipts,     \* details, receipt, raw logs and fee, saved together
  proxies,      \* proxy_resolutions: [Places -> ProxyStatus or None]
  abis,         \* contract_abis: [Contracts -> ABIs or None]
  traces,       \* transaction_traces: [Txs -> TraceStatus or None]
  decodings,    \* decoded calls, events and reverts: [Txs -> Decodings or None]
  actions,      \* transaction_actions: [Txs -> Actions or None]
  enrichments,  \* transaction_enrichments: [Txs -> EnrichmentStatus or None]
  dialect,      \* _trace_dialects of each process and endpoint
  pc,           \* where the inspection of a process stands
  work,         \* its local variables
  selected,     \* the selected activity row
  drawer,       \* the detail drawer
  edited,       \* history: the ABI list changed during the inspection
  edits,        \* counts ABI changes, for MaxEdits
  restarts      \* counts restarts, for MaxRestarts

storeVars == <<ledger, receipts, proxies, abis, traces, decodings, actions, enrichments>>
viewVars == <<selected, drawer>>
boundVars == <<edits, restarts>>
vars == <<storeVars, dialect, pc, work, viewVars, edited, boundVars>>

Steps == {"idle", "receipt", "proxy", "fetchProxy", "registries", "trace", "fetchTrace",
          "decoding", "actions", "enrichment", "fetchEnrichment", "done", "failed"}

NoDecoding == [registries |-> {}, revert |-> FALSE]
NoWork ==
  [tx |-> None, force |-> FALSE, cached |-> FALSE, proxy |-> None, registries |-> {},
   trace |-> None, decoding |-> NoDecoding]

Nowhere == [about |-> None, kind |-> "empty"]

NothingLearned == [e \in Endpoints |-> "unknown"]

Init ==
  /\ ledger = {} /\ receipts = {}
  /\ proxies = [k \in Places |-> None]
  /\ abis = [c \in Contracts |-> None]
  /\ traces = [t \in Txs |-> None]
  /\ decodings = [t \in Txs |-> None]
  /\ actions = [t \in Txs |-> None]
  /\ enrichments = [t \in Txs |-> None]
  /\ dialect = [p \in Processes |-> NothingLearned]
  /\ pc = [p \in Processes |-> "idle"]
  /\ work = [p \in Processes |-> NoWork]
  /\ selected = [p \in Processes |-> None]
  /\ drawer = [p \in Processes |-> Nowhere]
  /\ edited = [p \in Processes |-> FALSE]
  /\ edits = 0 /\ restarts = 0

-----------------------------------------------------------------------------
(* The repositories: each of these is one transaction, and replaces what   *)
(* was stored for its key.                                                 *)

TransactionExists(t) == t \in ledger
StoreInspection(t) == receipts' = receipts \cup {t}
StoreDecoding(t, decoding) == decodings' = [decodings EXCEPT ![t] = decoding]
StoreTrace(t, status) == traces' = [traces EXCEPT ![t] = status]
StoreActions(t, derived) == actions' = [actions EXCEPT ![t] = derived]
StoreEnrichment(t, status) == enrichments' = [enrichments EXCEPT ![t] = status]
StoreProxy(k, status) == proxies' = [proxies EXCEPT ![k] = status]
StoreABI(c, abi) == abis' = [abis EXCEPT ![c] = abi]

-----------------------------------------------------------------------------
(* The endpoints.                                                          *)

\* What an endpoint may answer to a trace request and what it then remembers.
\* A learned dialect is the only one asked; otherwise both are tried, a method
\* the endpoint does not serve leading on to the next and any other error
\* ending the search.
Answers(p, e) ==
  LET known == dialect[p][e]
      tried == IF "debug" \in Serves[e] THEN "debug" ELSE "parity"
      served == [status : {"complete", "partial"},
                 learned : {IF known = "unknown" THEN tried ELSE known}]
  IN  CASE known = None -> {[status |-> "skipped", learned |-> None]}
        [] known \in Dialects -> served \cup {[status |-> "error", learned |-> known]}
        [] known = "unknown" ->
             {[status |-> "error", learned |-> "unknown"]}
               \cup (IF Serves[e] # {} THEN served
                     ELSE {[status |-> "unsupported", learned |-> None]})

Succeeds(answer) == answer.status \in {"complete", "partial"}

\* The endpoints that are asked: in order, up to the first that succeeds.
AskedOf(answer) == {e \in Endpoints : \A f \in 1..(e - 1) : ~Succeeds(answer[f])}

\* Mutant: an error is passed over like a missing method.
ErrorsPassedOver(answer) ==
  IF \E e \in Endpoints : Succeeds(answer[e])
    THEN (answer[CHOOSE e \in AskedOf(answer) : Succeeds(answer[e])]).status
    ELSE "unsupported"

\* The trace of all endpoints together; a ProviderError is kept as a trace
\* with status "unavailable".
TraceOf(answer) ==
  CASE \E e \in Endpoints : Succeeds(answer[e]) ->
         (answer[CHOOSE e \in AskedOf(answer) : Succeeds(answer[e])]).status
    [] OTHER -> IF \E e \in Endpoints : answer[e].status = "error" THEN "unavailable"
                ELSE "unsupported"

ProxyOf(k) == IF Implementation[k] = None THEN "not_proxy" ELSE "resolved"

-----------------------------------------------------------------------------
(* Decoding.                                                               *)

Place(t) == <<Target[t], Blocks[t]>>

ImplementationOf(t, proxy) == IF proxy = "resolved" THEN Implementation[Place(t)] ELSE None

\* The ABIs that apply: of the target, of the contracts with logs and of the
\* implementation, which also answers for the target.
RegistriesFor(t, proxy) ==
  LET behind == ImplementationOf(t, proxy)
      addresses == ({Target[t]} \cup Emitters[t] \cup {behind}) \ {None}
  IN  {<<c, abis[c]>> : c \in {d \in addresses : abis[d] # None}}
        \cup {<<Target[t], abis[c]>> : c \in {d \in {behind} \ {None} : abis[d] # None}}

\* version_for: the fingerprint of the registries.
VersionFor(registries) == registries

NormalizedActions(decoding, trace) == [registries |-> decoding.registries, trace |-> trace]

-----------------------------------------------------------------------------
(* One inspection.                                                         *)

Goto(p, step) == pc' = [pc EXCEPT ![p] = step]
Tx(p) == work[p].tx
Keep(p, field, value) == work' = [work EXCEPT ![p][field] = value]

\* The button: an inspection starts for the selected row, never two at a time.
Inspect(p) ==
  /\ pc[p] = "idle" /\ selected[p] # None /\ Endpoints # {}
  /\ drawer' = [drawer EXCEPT ![p] = [about |-> selected[p], kind |-> "loading"]]
  /\ \E force \in Forces :
       LET cached == ~force /\ selected[p] \in receipts
       IN  /\ work' = [work EXCEPT ![p] =
                         [NoWork EXCEPT !.tx = selected[p], !.force = force, !.cached = cached]]
           /\ Goto(p, IF cached THEN "proxy" ELSE "receipt")
  /\ UNCHANGED <<storeVars, dialect, selected, edited, boundVars>>

\* The receipt is saved whole, if Activity has saved the transaction.
SaveInspection(p) ==
  /\ pc[p] = "receipt" /\ TransactionExists(Tx(p))
  /\ StoreInspection(Tx(p))
  /\ Goto(p, "proxy")
  /\ UNCHANGED <<ledger, proxies, abis, traces, decodings, actions, enrichments, dialect,
                 work, viewVars, edited, boundVars>>

\* Every endpoint fails, or the transaction is not in the ledger.
ReceiptFails(p) ==
  /\ pc[p] = "receipt"
  /\ Goto(p, "failed")
  /\ UNCHANGED <<storeVars, dialect, work, viewVars, edited, boundVars>>

\* A stored resolution counts unless it records a failure, also when forced.
ProxyReusable(p) == proxies[Place(Tx(p))] \in ProxyStatus \ {"unavailable"}

ReadProxy(p) ==
  /\ pc[p] = "proxy"
  /\ IF ProxyReusable(p)
       THEN Keep(p, "proxy", proxies[Place(Tx(p))]) /\ Goto(p, "registries")
       ELSE Goto(p, "fetchProxy") /\ UNCHANGED work
  /\ UNCHANGED <<storeVars, dialect, viewVars, edited, boundVars>>

FetchProxy(p) ==
  /\ pc[p] = "fetchProxy"
  /\ \E answer \in {ProxyOf(Place(Tx(p))), "unavailable"} :
       /\ StoreProxy(Place(Tx(p)), answer)
       /\ Keep(p, "proxy", answer)
  /\ Goto(p, "registries")
  /\ UNCHANGED <<ledger, receipts, abis, traces, decodings, actions, enrichments, dialect,
                 viewVars, edited, boundVars>>

\* The ABIs are read one by one; an edit between two of them is an edit after.
ReadRegistries(p) ==
  /\ pc[p] = "registries"
  /\ Keep(p, "registries", RegistriesFor(Tx(p), work[p].proxy))
  /\ Goto(p, "trace")
  /\ UNCHANGED <<storeVars, dialect, viewVars, edited, boundVars>>

\* What is derived is saved only beside a saved receipt.
HasInspection(p) == Tx(p) \in receipts

TraceReusable(p) == ~work[p].force /\ traces[Tx(p)] \in TraceStatus \ {"unavailable"}

ReadTrace(p) ==
  /\ pc[p] = "trace"
  /\ IF TraceReusable(p)
       THEN Keep(p, "trace", traces[Tx(p)]) /\ Goto(p, "decoding")
       ELSE Goto(p, "fetchTrace") /\ UNCHANGED work
  /\ UNCHANGED <<storeVars, dialect, viewVars, edited, boundVars>>

\* The answer is saved with its calls in the place of the trace stored before,
\* a failure too.
FetchTrace(p) ==
  /\ pc[p] = "fetchTrace" /\ HasInspection(p)
  /\ \E answer \in [Endpoints -> UNION {Answers(p, e) : e \in Endpoints}] :
       /\ \A e \in Endpoints : answer[e] \in Answers(p, e)
       /\ StoreTrace(Tx(p), TraceOf(answer))
       /\ Keep(p, "trace", TraceOf(answer))
       /\ dialect' = [dialect EXCEPT ![p] = [e \in Endpoints |->
            IF e \in AskedOf(answer) THEN answer[e].learned ELSE dialect[p][e]]]
  /\ Goto(p, "decoding")
  /\ UNCHANGED <<ledger, receipts, proxies, abis, decodings, actions, enrichments,
                 viewVars, edited, boundVars>>

\* Mutant: a stored decoding is used whatever it was decoded with.
AnyDecoding(p) == work[p].cached /\ decodings[Tx(p)] # None

\* A cached inspection uses the stored decoding of the same version.
DecodingReusable(p) ==
  /\ work[p].cached /\ decodings[Tx(p)] # None
  /\ VersionFor(decodings[Tx(p)].registries) = VersionFor(work[p].registries)

\* Mutant: revert bytes are always asked for again.
AsksAgain(p) == {FALSE, Tx(p) \in Reverted}

\* Revert bytes: the stored ones, else what a replay returns; a replay that
\* fails counts as one without data.
RevertOf(p) ==
  IF work[p].cached /\ decodings[Tx(p)] # None /\ decodings[Tx(p)].revert THEN {TRUE}
  ELSE {FALSE, Tx(p) \in Reverted}

ReadDecoding(p) ==
  /\ pc[p] = "decoding" /\ DecodingReusable(p)
  /\ Keep(p, "decoding", decodings[Tx(p)])
  /\ Goto(p, "actions")
  /\ UNCHANGED <<storeVars, dialect, viewVars, edited, boundVars>>

SaveDecoding(p) ==
  /\ pc[p] = "decoding" /\ ~DecodingReusable(p) /\ HasInspection(p)
  /\ \E revert \in RevertOf(p) :
       LET decoding == [registries |-> work[p].registries, revert |-> revert]
       IN  /\ StoreDecoding(Tx(p), decoding)
           /\ Keep(p, "decoding", decoding)
  /\ Goto(p, "actions")
  /\ UNCHANGED <<ledger, receipts, proxies, abis, traces, actions, enrichments, dialect,
                 viewVars, edited, boundVars>>

\* Mutant: actions are derived once.
KeepsFirstActions(p) ==
  IF actions[Tx(p)] = None THEN NormalizedActions(work[p].decoding, work[p].trace)
  ELSE actions[Tx(p)]

DerivedActions(p) == NormalizedActions(work[p].decoding, work[p].trace)

\* Actions are derived every time and saved when they differ.
LoadActions(p) ==
  /\ pc[p] = "actions" /\ HasInspection(p)
  /\ StoreActions(Tx(p), DerivedActions(p))
  /\ Goto(p, "enrichment")
  /\ UNCHANGED <<ledger, receipts, proxies, abis, traces, decodings, enrichments, dialect,
                 work, viewVars, edited, boundVars>>

EnrichmentReusable(p) ==
  ~work[p].force /\ enrichments[Tx(p)] \in EnrichmentStatus \ {"unavailable"}

ReadEnrichment(p) ==
  /\ pc[p] = "enrichment"
  /\ Goto(p, IF EnrichmentReusable(p) THEN "done" ELSE "fetchEnrichment")
  /\ UNCHANGED <<storeVars, dialect, work, viewVars, edited, boundVars>>

FetchEnrichment(p) ==
  /\ pc[p] = "fetchEnrichment" /\ HasInspection(p)
  /\ \E answer \in EnrichmentStatus : StoreEnrichment(Tx(p), answer)
  /\ Goto(p, "done")
  /\ UNCHANGED <<ledger, receipts, proxies, abis, traces, decodings, actions, dialect,
                 work, viewVars, edited, boundVars>>

StillSelected(p) == selected[p] = Tx(p)

\* The result is shown if its row is still selected.
ShowResult(p) ==
  /\ pc[p] = "done"
  /\ drawer' = IF StillSelected(p)
                 THEN [drawer EXCEPT ![p] = [about |-> Tx(p), kind |-> "result"]]
                 ELSE drawer
  /\ Goto(p, "idle") /\ work' = [work EXCEPT ![p] = NoWork]
  /\ edited' = [edited EXCEPT ![p] = FALSE]
  /\ UNCHANGED <<storeVars, dialect, selected, boundVars>>

\* An error is shown whatever row is selected.
ShowError(p) ==
  /\ pc[p] = "failed"
  /\ drawer' = [drawer EXCEPT ![p] = [about |-> Tx(p), kind |-> "error"]]
  /\ Goto(p, "idle") /\ work' = [work EXCEPT ![p] = NoWork]
  /\ edited' = [edited EXCEPT ![p] = FALSE]
  /\ UNCHANGED <<storeVars, dialect, selected, boundVars>>

-----------------------------------------------------------------------------
(* The user and the rest of the application.                               *)

\* The list is reloaded or another row chosen, also during an inspection.
SelectRow(p) ==
  /\ \E t \in (Txs \cup {None}) \ {selected[p]} :
       /\ selected' = [selected EXCEPT ![p] = t]
       /\ drawer' = [drawer EXCEPT ![p] = [about |-> t, kind |-> "row"]]
  /\ UNCHANGED <<storeVars, dialect, pc, work, edited, boundVars>>

\* Activity saves a page with the transaction.
Synchronize ==
  /\ \E t \in Txs \ ledger : ledger' = ledger \cup {t}
  /\ UNCHANGED <<receipts, proxies, abis, traces, decodings, actions, enrichments, dialect,
                 pc, work, viewVars, edited, boundVars>>

\* Settings imports an ABI file, fetches a verified ABI or removes one.
EditABI ==
  /\ edits < MaxEdits /\ edits' = edits + 1
  /\ \E c \in Contracts : \E a \in (ABIs \cup {None}) \ {abis[c]} : StoreABI(c, a)
  /\ edited' = [p \in Processes |-> pc[p] # "idle"]
  /\ UNCHANGED <<ledger, receipts, proxies, traces, decodings, actions, enrichments, dialect,
                 pc, work, viewVars, restarts>>

\* A process ends, in the middle of an inspection or not, and starts again.
Restart(p) ==
  /\ restarts < MaxRestarts /\ restarts' = restarts + 1
  /\ dialect' = [dialect EXCEPT ![p] = NothingLearned]
  /\ pc' = [pc EXCEPT ![p] = "idle"]
  /\ work' = [work EXCEPT ![p] = NoWork]
  /\ selected' = [selected EXCEPT ![p] = None]
  /\ drawer' = [drawer EXCEPT ![p] = Nowhere]
  /\ edited' = [edited EXCEPT ![p] = FALSE]
  /\ UNCHANGED <<storeVars, edits>>

\* The steps the worker thread takes by itself.
WorkerStep(p) ==
  \/ SaveInspection(p) \/ ReceiptFails(p)
  \/ ReadProxy(p) \/ FetchProxy(p) \/ ReadRegistries(p)
  \/ ReadTrace(p) \/ FetchTrace(p)
  \/ ReadDecoding(p) \/ SaveDecoding(p) \/ LoadActions(p)
  \/ ReadEnrichment(p) \/ FetchEnrichment(p)
  \/ ShowResult(p) \/ ShowError(p)

Next ==
  \/ \E p \in Processes : Inspect(p) \/ WorkerStep(p) \/ SelectRow(p) \/ Restart(p)
  \/ Synchronize \/ EditABI

Spec == Init /\ [][Next]_vars

-----------------------------------------------------------------------------
(* Correctness.                                                            *)

(* "A temporary failure remains an error and is not cached as unsupported" *)
(* (M5_VALIDATION.md:29): a stored trace says unsupported only if none of  *)
(* the endpoints serves a trace method, whichever of them failed before,   *)
(* what each of them had learned and when the process was restarted.       *)
UnsupportedIsTrue ==
  \A t \in Txs : traces[t] = "unsupported" => \A e \in Endpoints : Serves[e] = {}

(* "The next transaction inspection re-decodes cached raw data with the    *)
(* new ABI" (CONFIGURATION.md:113): an inspection that ends without an ABI *)
(* change since it began has decoded with exactly the ABIs that apply now, *)
(* those of the implementation behind a resolved proxy included.           *)
DecodedWithTheABIsInForce ==
  \A p \in Processes :
    pc[p] = "done" /\ ~edited[p]
      => work[p].decoding.registries = RegistriesFor(Tx(p), work[p].proxy)

(* While a single process is running, what an inspection leaves behind     *)
(* fits together: the stored actions are those of the stored decoding and  *)
(* the stored trace, also when an earlier inspection was interrupted       *)
(* between them or the trace became available later.                       *)
ActionsFollowEvidence ==
  \A p \in Processes :
    pc[p] = "done" /\ Processes = {p}
      => /\ decodings[Tx(p)] # None /\ traces[Tx(p)] # None
         /\ actions[Tx(p)] = NormalizedActions(decodings[Tx(p)], traces[Tx(p)])

(* "Temporary failures are diagnostic records, not durable capability      *)
(* results" (transaction_inspection_service.py:382): evidence once read    *)
(* from a block - a trace, a proxy resolution, revert bytes - is not       *)
(* replaced by the record of a later failure.                              *)
Settled(stored) == stored \notin {None, "unavailable"}
EvidenceIsKept ==
  [][/\ \A t \in Txs : Settled(traces[t]) => Settled(traces'[t])
     /\ \A k \in Places : Settled(proxies[k]) => proxies'[k] = proxies[k]
     /\ \A t \in Txs : decodings[t] # None /\ decodings[t].revert => decodings'[t].revert]_vars
=============================================================================
