--------------------- MODULE TransactionInspectionProofs ---------------------
(***************************************************************************)
(* Proofs about TransactionInspection for any number of transactions,      *)
(* contracts, endpoints, edits and restarts, and, unless a theorem says    *)
(* otherwise, of processes that share the database; and about              *)
(* WalletActions, which makes the actions of one transaction out of what   *)
(* an inspection saved, for any number of its events and internal calls.   *)
(***************************************************************************)
EXTENDS TransactionInspection, WalletActions, FiniteSetTheorems, FunctionTheorems,
        WellFoundedInduction, TLAPS

Optional(S) == S \cup {None}
Learned == Dialects \cup {"unknown", None}
Work ==
  [tx : Optional(Txs), force : BOOLEAN, cached : BOOLEAN, proxy : Optional(ProxyStatus),
   registries : Registries, trace : Optional(TraceStatus), decoding : Decodings]
Drawer == [about : Optional(Txs), kind : {"empty", "loading", "result", "error", "row"}]

\* Where an inspection stands once it has its registries, trace and decoding.
WithActions == {"enrichment", "fetchEnrichment", "done"}
WithDecoding == WithActions \cup {"actions"}
WithTrace == WithDecoding \cup {"decoding"}
WithRegistries == WithTrace \cup {"trace", "fetchTrace"}

StoreTypeOK ==
  /\ ledger \subseteq Txs /\ receipts \subseteq Txs
  /\ proxies \in [Places -> Optional(ProxyStatus)]
  /\ abis \in [Contracts -> Optional(ABIs)]
  /\ traces \in [Txs -> Optional(TraceStatus)]
  /\ decodings \in [Txs -> Optional(Decodings)]
  /\ actions \in [Txs -> Optional(Actions)]
  /\ enrichments \in [Txs -> Optional(EnrichmentStatus)]

ProcessTypeOK ==
  /\ dialect \in [Processes -> [Endpoints -> Learned]]
  /\ pc \in [Processes -> Steps]
  /\ work \in [Processes -> Work]
  /\ selected \in [Processes -> Optional(Txs)]
  /\ drawer \in [Processes -> Drawer]
  /\ edited \in [Processes -> BOOLEAN]
  /\ edits \in Nat /\ restarts \in Nat

\* What is under inspection is a transaction, and its trace is known from the
\* decoding on.
Underway(p) ==
  /\ pc[p] # "idle" => work[p].tx \in Txs
  /\ pc[p] \in WithTrace => work[p].trace \in TraceStatus

TypeOK == StoreTypeOK /\ ProcessTypeOK /\ \A p \in Processes : Underway(p)

\* An endpoint is left out only if it serves no trace method.
LearnedIsTrue ==
  \A p \in Processes, e \in Endpoints : dialect[p][e] = None => Serves[e] = {}

\* An inspection that no ABI edit disturbed holds the registries that apply
\* now, and its decoding was made with the registries it holds.
RegistriesHeld(p) ==
  /\ pc[p] \in WithRegistries /\ ~edited[p]
       => work[p].registries = RegistriesFor(Tx(p), work[p].proxy)
  /\ pc[p] \in WithDecoding => work[p].decoding.registries = work[p].registries

\* With nobody else on the database, the tables hold what the inspection holds.
TablesHold(p) ==
  /\ pc[p] \in WithTrace => traces[Tx(p)] = work[p].trace
  /\ pc[p] \in WithDecoding => decodings[Tx(p)] = work[p].decoding
  /\ pc[p] \in WithActions => actions[Tx(p)] = DerivedActions(p)

\* With nobody else on the database and no refresh forced, only what is
\* missing or was a failure is fetched.
FetchesWhatIsMissing(p) ==
  /\ ~work[p].force
  /\ pc[p] = "fetchProxy" => ~Settled(proxies[Place(Tx(p))])
  /\ pc[p] = "fetchTrace" => ~Settled(traces[Tx(p)])
  /\ pc[p] \notin WithDecoding \cup {"idle"} /\ ~work[p].cached => decodings[Tx(p)] = None
  /\ \A t \in Txs : decodings[t] # None => t \in receipts

-----------------------------------------------------------------------------
(* The first endpoint that succeeds.                                       *)

Less == {ss \in Nat \X Nat : ss[1] < ss[2]}

LEMMA LeastNumber ==
  ASSUME NEW T, T \subseteq Nat, T # {}
  PROVE  \E x \in T : \A y \in T : x <= y
<1>1. IsWellFoundedOn(Less, Nat)
  BY NatLessThanWellFounded, Zenon DEF OpToRel, Less
<1>2. PICK x \in T : \A y \in T : ~(<<y, x>> \in Less)
  BY <1>1, WFMin, Zenon
<1>3. ASSUME NEW y \in T PROVE x <= y
  <2>1. y \in Nat /\ x \in Nat
    OBVIOUS
  <2>2. <<y, x>> \in Nat \X Nat /\ <<y, x>>[1] = y /\ <<y, x>>[2] = x
    BY <2>1
  <2>3. y < x => <<y, x>> \in Less
    BY <2>2 DEF Less
  <2> QED
    BY <1>2, <2>1, <2>3
<1> QED
  BY <1>3

LEMMA SuccessIsAsked ==
  ASSUME NEW answer, \E e \in Endpoints : Succeeds(answer[e])
  PROVE  \E e \in AskedOf(answer) : Succeeds(answer[e])
<1> DEFINE T == {e \in Endpoints : Succeeds(answer[e])}
<1>1. T \subseteq Nat /\ T # {}
  BY EndpointsAssumption DEF Endpoints
<1>2. PICK x \in T : \A y \in T : x <= y
  <2> HIDE DEF T
  <2> QED
    BY <1>1, LeastNumber
<1>3. ASSUME NEW f \in 1..(x - 1) PROVE ~Succeeds(answer[f])
  <2>1. x \in 1..EndpointCount
    BY DEF Endpoints
  <2>2. f \in Endpoints /\ f < x
    BY <2>1, EndpointsAssumption DEF Endpoints
  <2> QED
    BY <1>2, <2>1, <2>2
<1> QED
  BY <1>3 DEF AskedOf

\* What answers to a trace request are like, whatever an endpoint has learned.
ServesNothing(e) == Serves[e] = {}
LEMMA AnswersAreTrue ==
  ASSUME NEW known \in Learned, NEW p, NEW e, dialect[p][e] = known, NEW a \in Answers(p, e)
  PROVE  /\ a.learned \in Learned
         /\ a.status \in {"complete", "partial", "error", "skipped", "unsupported"}
         /\ a.learned = None \/ a.status \in {"skipped", "unsupported"}
              => known = None \/ ServesNothing(e)
<1> DEFINE tried == IF "debug" \in Serves[e] THEN "debug" ELSE "parity"
           served == [status : {"complete", "partial"},
                      learned : {IF known = "unknown" THEN tried ELSE known}]
<1>1. tried \in Dialects
  BY DEF Dialects
<1>2. None # "unknown" /\ None \notin Dialects /\ "unknown" \notin Dialects
  BY NoneAssumption DEF Dialects
<1>3. CASE known = None
  <2>1. Answers(p, e) = {[status |-> "skipped", learned |-> None]}
    BY <1>2, <1>3 DEF Answers
  <2>2. a.status = "skipped" /\ a.learned = None
    BY <2>1
  <2> QED
    BY <1>3, <2>2 DEF Learned
<1>4. CASE known \in Dialects
  <2>1. Answers(p, e) = served \cup {[status |-> "error", learned |-> known]}
    BY <1>2, <1>4 DEF Answers
  <2>2. a.status \in {"complete", "partial", "error"} /\ a.learned = known
    BY <1>2, <1>4, <2>1
  <2> QED
    BY <1>2, <1>4, <2>2 DEF Learned
<1>5. CASE known = "unknown"
  <2>1. Answers(p, e) =
          {[status |-> "error", learned |-> "unknown"]}
            \cup (IF Serves[e] # {} THEN served
                  ELSE {[status |-> "unsupported", learned |-> None]})
    BY <1>2, <1>5 DEF Answers
  <2>2. \/ a = [status |-> "error", learned |-> "unknown"]
        \/ a.status \in {"complete", "partial"} /\ a.learned = tried
        \/ a = [status |-> "unsupported", learned |-> None] /\ Serves[e] = {}
    BY <1>5, <2>1
  <2> HIDE DEF tried
  <2> QED
    BY <1>1, <1>2, <2>2 DEF Learned, ServesNothing
<1> QED
  BY <1>3, <1>4, <1>5 DEF Learned

\* Answers of all endpoints together, of which those asked count.
AnswersOf(p, answer) == \A e \in Endpoints : answer[e] \in Answers(p, e)

LEMMA TraceIsTrue ==
  ASSUME NEW p \in Processes, dialect[p] \in [Endpoints -> Learned],
         NEW answer, AnswersOf(p, answer)
  PROVE  /\ TraceOf(answer) \in TraceStatus
         /\ TraceOf(answer) = "unsupported"
              => \A e \in Endpoints : dialect[p][e] = None \/ ServesNothing(e)
<1>1. ASSUME NEW e \in Endpoints
      PROVE  /\ answer[e].status \in {"complete", "partial", "error", "skipped", "unsupported"}
             /\ answer[e].status \in {"skipped", "unsupported"}
                  => dialect[p][e] = None \/ ServesNothing(e)
  BY AnswersAreTrue DEF AnswersOf
<1>2. CASE \E e \in Endpoints : Succeeds(answer[e])
  <2>1. PICK e \in AskedOf(answer) : Succeeds(answer[e])
    BY <1>2, SuccessIsAsked
  <2>2. Succeeds(answer[CHOOSE f \in AskedOf(answer) : Succeeds(answer[f])])
    BY <2>1
  <2>3. TraceOf(answer) \in {"complete", "partial"}
    BY <1>2, <2>2 DEF TraceOf, Succeeds
  <2> QED
    BY <2>3 DEF TraceStatus
<1>3. CASE ~\E e \in Endpoints : Succeeds(answer[e])
  <2>1. TraceOf(answer) = IF \E e \in Endpoints : answer[e].status = "error"
                            THEN "unavailable" ELSE "unsupported"
    BY <1>3 DEF TraceOf
  <2>2. ASSUME TraceOf(answer) = "unsupported", NEW e \in Endpoints
        PROVE  dialect[p][e] = None \/ ServesNothing(e)
    BY <1>1, <1>3, <2>1, <2>2 DEF Succeeds
  <2> QED
    BY <2>1, <2>2 DEF TraceStatus
<1> QED
  BY <1>2, <1>3

-----------------------------------------------------------------------------
(* Types.                                                                  *)

LEMMA NoWorkType == NoWork \in Work
BY DEF NoWork, Work, Optional, NoDecoding, Decodings, Registries

LEMMA InitType == Init => TypeOK
<1> SUFFICES ASSUME Init PROVE TypeOK
  OBVIOUS
<1>1. StoreTypeOK
  BY DEF Init, StoreTypeOK, Optional
<1>2. dialect \in [Processes -> [Endpoints -> Learned]]
  BY DEF Init, NothingLearned, Learned
<1>3. drawer \in [Processes -> Drawer] /\ pc \in [Processes -> Steps]
  BY DEF Init, Nowhere, Drawer, Optional, Steps
<1>4. ProcessTypeOK
  BY <1>2, <1>3, NoWorkType, BoundsAssumption DEF Init, ProcessTypeOK, Optional
<1>5. \A p \in Processes : Underway(p)
  BY DEF Init, Underway, WithTrace, WithDecoding, WithActions
<1> QED
  BY <1>1, <1>4, <1>5 DEF TypeOK

LEMMA RegistriesType ==
  ASSUME TypeOK, NEW t \in Txs, NEW proxy
  PROVE  RegistriesFor(t, proxy) \in Registries
<1> DEFINE behind == ImplementationOf(t, proxy)
           addresses == ({Target[t]} \cup Emitters[t] \cup {behind}) \ {None}
<1>1. Place(t) \in Places
  BY DEF Place, Places
<1>2. behind \in Optional(Contracts)
  BY <1>1, InputsAssumption DEF ImplementationOf, Optional
<1>3. Target[t] \in Contracts /\ Emitters[t] \subseteq Contracts
  BY InputsAssumption
<1> HIDE DEF behind
<1>4. addresses \subseteq Contracts /\ {behind} \ {None} \subseteq Contracts
  BY <1>2, <1>3 DEF Optional
<1>5. ASSUME NEW c \in Contracts, abis[c] # None PROVE abis[c] \in ABIs
  BY <1>5 DEF TypeOK, StoreTypeOK, Optional
<1> HIDE DEF addresses
<1>6. {<<c, abis[c]>> : c \in {d \in addresses : abis[d] # None}} \subseteq Contracts \X ABIs
  BY <1>4, <1>5
<1>7. {<<Target[t], abis[c]>> : c \in {d \in {behind} \ {None} : abis[d] # None}}
        \subseteq Contracts \X ABIs
  BY <1>3, <1>4, <1>5
<1>8. RegistriesFor(t, proxy) =
        {<<c, abis[c]>> : c \in {d \in addresses : abis[d] # None}}
          \cup {<<Target[t], abis[c]>> : c \in {d \in {behind} \ {None} : abis[d] # None}}
  BY DEF RegistriesFor, addresses, behind
<1> QED
  BY <1>6, <1>7, <1>8 DEF Registries

(* An inspection takes a step, keeping its transaction, and with the trace *)
(* loaded from the decoding on; or it ends.                                *)
Moved(p, s, w) == pc' = [pc EXCEPT ![p] = s] /\ work' = [work EXCEPT ![p] = w]

LEMMA MovedType ==
  ASSUME TypeOK, NEW p \in Processes, NEW s \in Steps, NEW w \in Work, Moved(p, s, w),
         s # "idle" => w.tx \in Txs, s \in WithTrace => w.trace \in TraceStatus
  PROVE  /\ pc' \in [Processes -> Steps] /\ work' \in [Processes -> Work]
         /\ \A q \in Processes : Underway(q)'
<1>1. ASSUME NEW q \in Processes PROVE Underway(q)'
  BY DEF TypeOK, ProcessTypeOK, Underway, Moved
<1> QED
  BY <1>1 DEF TypeOK, ProcessTypeOK, Moved

LEMMA GotoMoves ==
  ASSUME TypeOK, NEW p \in Processes, NEW s, Goto(p, s), UNCHANGED work
  PROVE  Moved(p, s, work[p])
BY DEF TypeOK, ProcessTypeOK, Goto, Moved

(* One field of the local variables is assigned.                           *)
LEMMA WorkAt ==
  ASSUME TypeOK, NEW p \in Processes
  PROVE  work[p] \in Work
BY DEF TypeOK, ProcessTypeOK

LEMMA KeepMoves ==
  ASSUME TypeOK, NEW p \in Processes, NEW s, NEW v, Goto(p, s)
  PROVE  /\ Keep(p, "proxy", v) => Moved(p, s, [work[p] EXCEPT !.proxy = v])
         /\ Keep(p, "registries", v) => Moved(p, s, [work[p] EXCEPT !.registries = v])
         /\ Keep(p, "trace", v) => Moved(p, s, [work[p] EXCEPT !.trace = v])
         /\ Keep(p, "decoding", v) => Moved(p, s, [work[p] EXCEPT !.decoding = v])
<1>1. work[p] \in Work
  BY WorkAt
<1> QED
  BY <1>1 DEF Goto, Keep, Moved, Work

(* The steps of an inspection that leave its local variables alone.        *)
LEMMA PlainStepType ==
  ASSUME TypeOK, NEW p \in Processes, pc[p] # "idle",
         NEW s \in Steps, s \in WithTrace => pc[p] \in WithTrace,
         Goto(p, s), UNCHANGED work
  PROVE  /\ pc' \in [Processes -> Steps] /\ work' \in [Processes -> Work]
         /\ \A q \in Processes : Underway(q)'
<1>1. Underway(p) /\ work[p] \in Work /\ s \in Steps
  BY WorkAt DEF TypeOK, Steps, WithTrace, WithDecoding, WithActions
<1>2. Moved(p, s, work[p])
  BY GotoMoves
<1> QED
  BY <1>1, <1>2, MovedType DEF Underway

(* The inspection ends.                                                    *)
LEMMA EndType ==
  ASSUME TypeOK, NEW p \in Processes, Moved(p, "idle", NoWork)
  PROVE  /\ pc' \in [Processes -> Steps] /\ work' \in [Processes -> Work]
         /\ \A q \in Processes : Underway(q)'
BY NoWorkType, MovedType DEF Steps, WithTrace, WithDecoding, WithActions

(* One that leaves the view, the user's edits and the endpoints alone.     *)
LEMMA PlainType ==
  ASSUME TypeOK, NEW p \in Processes, pc[p] # "idle",
         NEW s \in Steps, s \in WithTrace => pc[p] \in WithTrace,
         Goto(p, s), UNCHANGED work, StoreTypeOK', UNCHANGED <<dialect, viewVars, edited, boundVars>>
  PROVE  TypeOK'
<1>1. /\ pc' \in [Processes -> Steps] /\ work' \in [Processes -> Work]
      /\ \A q \in Processes : Underway(q)'
  BY PlainStepType
<1> QED
  BY <1>1 DEF TypeOK, ProcessTypeOK, viewVars, boundVars

(* The steps that save, or nothing, and read nothing.                      *)
LEMMA SavingType ==
  ASSUME TypeOK, NEW p \in Processes,
         \/ SaveInspection(p) \/ ReceiptFails(p) \/ LoadActions(p)
         \/ ReadEnrichment(p) \/ FetchEnrichment(p)
  PROVE  TypeOK'
<1>1. /\ {"proxy", "failed", "enrichment", "done", "fetchEnrichment"} \subseteq Steps
      /\ {"actions", "enrichment", "fetchEnrichment"} \subseteq WithTrace
      /\ "proxy" \notin WithTrace /\ "failed" \notin WithTrace
  BY DEF Steps, WithTrace, WithDecoding, WithActions
<1>2. CASE SaveInspection(p)
  <2>1. Tx(p) \in Txs
    BY <1>2 DEF TypeOK, Underway, SaveInspection, Tx
  <2>2. StoreTypeOK'
    BY <1>2, <2>1 DEF SaveInspection, StoreInspection, TypeOK, StoreTypeOK
  <2> QED
    BY <1>1, <1>2, <2>2, PlainType DEF SaveInspection
<1>3. CASE ReceiptFails(p)
  <2>1. StoreTypeOK'
    BY <1>3 DEF ReceiptFails, storeVars, TypeOK, StoreTypeOK
  <2> QED
    BY <1>1, <1>3, <2>1, PlainType DEF ReceiptFails
<1>4. CASE LoadActions(p)
  <2>1. pc[p] \in WithTrace /\ pc[p] # "idle"
    BY <1>1, <1>4 DEF LoadActions
  <2>2. Tx(p) \in Txs /\ work[p].trace \in TraceStatus /\ work[p] \in Work
    BY <2>1, WorkAt DEF TypeOK, Underway, Tx
  <2>3. DerivedActions(p) \in Actions
    BY <2>2 DEF DerivedActions, NormalizedActions, Actions, Work, Decodings
  <2>4. StoreTypeOK'
    BY <1>4, <2>2, <2>3 DEF LoadActions, StoreActions, TypeOK, StoreTypeOK, Optional
  <2> QED
    BY <1>1, <1>4, <2>1, <2>4, PlainType DEF LoadActions
<1>5. CASE ReadEnrichment(p)
  <2>1. pc[p] \in WithTrace /\ pc[p] # "idle"
    BY <1>1, <1>5 DEF ReadEnrichment
  <2>2. PICK s \in {"done", "fetchEnrichment"} : Goto(p, s)
    BY <1>5 DEF ReadEnrichment
  <2>3. StoreTypeOK'
    BY <1>5 DEF ReadEnrichment, storeVars, TypeOK, StoreTypeOK
  <2> QED
    BY <1>1, <1>5, <2>1, <2>2, <2>3, PlainType DEF ReadEnrichment
<1>6. CASE FetchEnrichment(p)
  <2>1. pc[p] \in WithTrace /\ pc[p] # "idle"
    BY <1>1, <1>6 DEF FetchEnrichment
  <2>2. Tx(p) \in Txs
    BY <2>1 DEF TypeOK, Underway, Tx
  <2>3. StoreTypeOK'
    BY <1>6, <2>2 DEF FetchEnrichment, StoreEnrichment, TypeOK, StoreTypeOK, Optional
  <2> QED
    BY <1>1, <1>6, <2>1, <2>3, PlainType DEF FetchEnrichment
<1> QED
  BY <1>2, <1>3, <1>4, <1>5, <1>6

(* The inspection begins, from the selected row, and ends.                 *)
LEMMA OuterType ==
  ASSUME TypeOK, NEW p \in Processes,
         Inspect(p) \/ ShowResult(p) \/ ShowError(p) \/ Restart(p)
  PROVE  TypeOK'
<1>1. StoreTypeOK'
  BY DEF Inspect, ShowResult, ShowError, Restart, storeVars, TypeOK, StoreTypeOK
<1>2. CASE Inspect(p)
  <2>1. PICK force \in BOOLEAN, cached \in BOOLEAN, s \in {"proxy", "receipt"} :
          Moved(p, s, [NoWork EXCEPT !.tx = selected[p], !.force = force, !.cached = cached])
    BY <1>2, InputsAssumption DEF Inspect, Goto, Moved
  <2> DEFINE w == [NoWork EXCEPT !.tx = selected[p], !.force = force, !.cached = cached]
  <2>2. selected[p] \in Txs
    BY <1>2 DEF Inspect, TypeOK, ProcessTypeOK, Optional
  <2>3. w \in Work /\ w.tx \in Txs
    BY <2>2, NoWorkType DEF Work, Optional
  <2>4. [about |-> selected[p], kind |-> "loading"] \in Drawer
    BY <2>2 DEF Drawer, Optional
  <2>5. drawer' \in [Processes -> Drawer]
    BY <1>2, <2>4 DEF Inspect, TypeOK, ProcessTypeOK
  <2> HIDE DEF w
  <2>6. /\ pc' \in [Processes -> Steps] /\ work' \in [Processes -> Work]
        /\ \A q \in Processes : Underway(q)'
    <3>1. s \in Steps /\ s \notin WithTrace
      BY DEF Steps, WithTrace, WithDecoding, WithActions
    <3> QED
      BY <2>1, <2>3, <3>1, MovedType DEF w
  <2> QED
    BY <1>1, <1>2, <2>5, <2>6 DEF Inspect, TypeOK, ProcessTypeOK, boundVars
<1>3. CASE ShowResult(p) \/ ShowError(p)
  <2>1. Tx(p) \in Optional(Txs)
    BY WorkAt DEF Work, Tx
  <2>2. [about |-> Tx(p), kind |-> "result"] \in Drawer
        /\ [about |-> Tx(p), kind |-> "error"] \in Drawer
    BY <2>1 DEF Drawer
  <2>3. drawer' \in [Processes -> Drawer]
    BY <1>3, <2>2 DEF ShowResult, ShowError, TypeOK, ProcessTypeOK
  <2>4. Moved(p, "idle", NoWork)
    BY <1>3 DEF ShowResult, ShowError, Goto, Moved
  <2> QED
    BY <1>1, <1>3, <2>3, <2>4, EndType
    DEF ShowResult, ShowError, TypeOK, ProcessTypeOK, boundVars
<1>4. CASE Restart(p)
  <2>1. Moved(p, "idle", NoWork)
    BY <1>4 DEF Restart, Moved
  <2>2. NothingLearned \in [Endpoints -> Learned] /\ Nowhere \in Drawer
    BY DEF NothingLearned, Learned, Nowhere, Drawer, Optional
  <2>3. restarts' \in Nat
    BY <1>4 DEF Restart, TypeOK, ProcessTypeOK
  <2> QED
    BY <1>1, <1>4, <2>1, <2>2, <2>3, EndType DEF Restart, TypeOK, ProcessTypeOK, Optional
<1> QED
  BY <1>2, <1>3, <1>4

(* A step that assigns one local variable.                                 *)
LEMMA AssignType ==
  ASSUME TypeOK, NEW p \in Processes, pc[p] # "idle", NEW s \in Steps, NEW w \in Work,
         Moved(p, s, w), w.tx = work[p].tx, s \in WithTrace => w.trace \in TraceStatus,
         StoreTypeOK', dialect' \in [Processes -> [Endpoints -> Learned]],
         UNCHANGED <<viewVars, edited, boundVars>>
  PROVE  TypeOK'
<1>1. w.tx \in Txs
  BY DEF TypeOK, Underway
<1>2. /\ pc' \in [Processes -> Steps] /\ work' \in [Processes -> Work]
      /\ \A q \in Processes : Underway(q)'
  BY <1>1, MovedType
<1> QED
  BY <1>2 DEF TypeOK, ProcessTypeOK, viewVars, boundVars

LEMMA ProxyType ==
  ASSUME TypeOK, NEW p \in Processes, ReadProxy(p) \/ FetchProxy(p) \/ ReadRegistries(p)
  PROVE  TypeOK'
<1>1. /\ {"registries", "fetchProxy", "trace"} \subseteq Steps
      /\ "registries" \notin WithTrace /\ "fetchProxy" \notin WithTrace
      /\ "trace" \notin WithTrace
  BY DEF Steps, WithTrace, WithDecoding, WithActions
<1>2. pc[p] # "idle"
  BY DEF ReadProxy, FetchProxy, ReadRegistries
<1>3. work[p] \in Work /\ Tx(p) \in Txs /\ Place(Tx(p)) \in Places
  BY <1>2, WorkAt DEF TypeOK, Underway, Tx, Place, Places
<1>4. dialect \in [Processes -> [Endpoints -> Learned]]
  BY DEF TypeOK, ProcessTypeOK
<1>5. ASSUME NEW a \in Optional(ProxyStatus), Keep(p, "proxy", a), Goto(p, "registries"),
             StoreTypeOK', UNCHANGED <<dialect, viewVars, edited, boundVars>>
      PROVE  TypeOK'
  <2> DEFINE w == [work[p] EXCEPT !.proxy = a]
  <2>1. w \in Work /\ w.tx = work[p].tx
    BY <1>3 DEF Work
  <2>2. Moved(p, "registries", w)
    BY <1>5, KeepMoves
  <2> HIDE DEF w
  <2> QED
    BY <1>1, <1>2, <1>4, <1>5, <2>1, <2>2, AssignType
<1>6. CASE ReadProxy(p)
  <2>1. StoreTypeOK'
    BY <1>6 DEF ReadProxy, storeVars, TypeOK, StoreTypeOK
  <2>2. CASE ProxyReusable(p)
    <3>1. proxies[Place(Tx(p))] \in Optional(ProxyStatus)
      BY <1>3 DEF TypeOK, StoreTypeOK
    <3> QED
      BY <1>5, <1>6, <2>1, <2>2, <3>1 DEF ReadProxy
  <2>3. CASE ~ProxyReusable(p)
    BY <1>1, <1>2, <1>6, <2>1, <2>3, PlainType DEF ReadProxy
  <2> QED
    BY <2>2, <2>3
<1>7. CASE FetchProxy(p)
  <2>1. PICK a \in {ProxyOf(Place(Tx(p))), "unavailable"} :
          StoreProxy(Place(Tx(p)), a) /\ Keep(p, "proxy", a)
    BY <1>7 DEF FetchProxy
  <2>2. a \in Optional(ProxyStatus)
    BY DEF ProxyOf, Optional, ProxyStatus
  <2>3. StoreTypeOK'
    BY <1>3, <1>7, <2>1, <2>2 DEF FetchProxy, StoreProxy, TypeOK, StoreTypeOK
  <2> QED
    BY <1>5, <1>7, <2>1, <2>2, <2>3 DEF FetchProxy
<1>8. CASE ReadRegistries(p)
  <2> DEFINE r == RegistriesFor(Tx(p), work[p].proxy)
             w == [work[p] EXCEPT !.registries = r]
  <2>1. r \in Registries
    BY <1>3, RegistriesType
  <2>2. Keep(p, "registries", r) /\ Goto(p, "trace")
    BY <1>8 DEF ReadRegistries
  <2> HIDE DEF r
  <2>3. w \in Work /\ w.tx = work[p].tx
    BY <1>3, <2>1 DEF Work
  <2>4. Moved(p, "trace", w)
    BY <2>2, KeepMoves
  <2>5. StoreTypeOK'
    BY <1>8 DEF ReadRegistries, storeVars, TypeOK, StoreTypeOK
  <2> HIDE DEF w
  <2> QED
    BY <1>1, <1>2, <1>4, <1>8, <2>3, <2>4, <2>5, AssignType DEF ReadRegistries
<1> QED
  BY <1>6, <1>7, <1>8

LEMMA TraceType ==
  ASSUME TypeOK, NEW p \in Processes, ReadTrace(p) \/ FetchTrace(p)
  PROVE  TypeOK'
<1>1. {"fetchTrace", "decoding"} \subseteq Steps /\ "fetchTrace" \notin WithTrace
  BY DEF Steps, WithTrace, WithDecoding, WithActions
<1>2. pc[p] # "idle"
  BY DEF ReadTrace, FetchTrace
<1>3. work[p] \in Work /\ Tx(p) \in Txs
  BY <1>2, WorkAt DEF TypeOK, Underway, Tx
<1>4. ASSUME NEW a \in TraceStatus, Keep(p, "trace", a), Goto(p, "decoding"), StoreTypeOK',
             dialect' \in [Processes -> [Endpoints -> Learned]],
             UNCHANGED <<viewVars, edited, boundVars>>
      PROVE  TypeOK'
  <2> DEFINE w == [work[p] EXCEPT !.trace = a]
  <2>1. w \in Work /\ w.tx = work[p].tx /\ w.trace = a
    BY <1>3 DEF Work, Optional
  <2>2. Moved(p, "decoding", w)
    BY <1>4, KeepMoves
  <2> HIDE DEF w
  <2> QED
    BY <1>1, <1>2, <1>4, <2>1, <2>2, AssignType
<1>5. CASE ReadTrace(p)
  <2>1. StoreTypeOK'
    BY <1>5 DEF ReadTrace, storeVars, TypeOK, StoreTypeOK
  <2>2. CASE TraceReusable(p)
    <3>1. dialect' \in [Processes -> [Endpoints -> Learned]]
      BY <1>5 DEF ReadTrace, TypeOK, ProcessTypeOK
    <3> QED
      BY <1>4, <1>5, <2>1, <2>2, <3>1 DEF ReadTrace, TraceReusable
  <2>3. CASE ~TraceReusable(p)
    BY <1>1, <1>2, <1>5, <2>1, <2>3, PlainType DEF ReadTrace
  <2> QED
    BY <2>2, <2>3
<1>6. CASE FetchTrace(p)
  <2>1. PICK answer :
          /\ AnswersOf(p, answer)
          /\ StoreTrace(Tx(p), TraceOf(answer)) /\ Keep(p, "trace", TraceOf(answer))
          /\ dialect' = [dialect EXCEPT ![p] = [e \in Endpoints |->
               IF e \in AskedOf(answer) THEN answer[e].learned ELSE dialect[p][e]]]
    BY <1>6 DEF FetchTrace, AnswersOf
  <2>2. dialect[p] \in [Endpoints -> Learned]
    BY DEF TypeOK, ProcessTypeOK
  <2>3. TraceOf(answer) \in TraceStatus
    BY <2>1, <2>2, TraceIsTrue
  <2>4. \A e \in Endpoints : answer[e].learned \in Learned
    BY <2>1, <2>2, AnswersAreTrue DEF AnswersOf
  <2>5. dialect' \in [Processes -> [Endpoints -> Learned]]
    BY <2>1, <2>2, <2>4 DEF TypeOK, ProcessTypeOK
  <2>6. StoreTypeOK'
    BY <1>3, <1>6, <2>1, <2>3 DEF FetchTrace, StoreTrace, TypeOK, StoreTypeOK, Optional
  <2> QED
    BY <1>4, <1>6, <2>1, <2>3, <2>5, <2>6 DEF FetchTrace
<1> QED
  BY <1>5, <1>6

LEMMA DecodingType ==
  ASSUME TypeOK, NEW p \in Processes, ReadDecoding(p) \/ SaveDecoding(p)
  PROVE  TypeOK'
<1>1. pc[p] = "decoding" /\ "actions" \in Steps /\ "decoding" \in WithTrace
  BY DEF ReadDecoding, SaveDecoding, Steps, WithTrace
<1>2. work[p] \in Work /\ Tx(p) \in Txs /\ work[p].trace \in TraceStatus
  BY <1>1, WorkAt DEF TypeOK, Underway, Tx
<1>3. ASSUME NEW d \in Decodings, Keep(p, "decoding", d), Goto(p, "actions"), StoreTypeOK',
             UNCHANGED <<dialect, viewVars, edited, boundVars>>
      PROVE  TypeOK'
  <2> DEFINE w == [work[p] EXCEPT !.decoding = d]
  <2>1. w \in Work /\ w.tx = work[p].tx /\ w.trace = work[p].trace
    BY <1>2 DEF Work
  <2>2. Moved(p, "actions", w)
    BY <1>3, KeepMoves
  <2>3. dialect' \in [Processes -> [Endpoints -> Learned]]
    BY <1>3 DEF TypeOK, ProcessTypeOK
  <2> HIDE DEF w
  <2> QED
    BY <1>1, <1>2, <1>3, <2>1, <2>2, <2>3, AssignType
<1>4. CASE ReadDecoding(p)
  <2>1. decodings[Tx(p)] \in Decodings
    BY <1>2, <1>4 DEF ReadDecoding, DecodingReusable, TypeOK, StoreTypeOK, Optional
  <2>2. StoreTypeOK'
    BY <1>4 DEF ReadDecoding, storeVars, TypeOK, StoreTypeOK
  <2> QED
    BY <1>3, <1>4, <2>1, <2>2 DEF ReadDecoding
<1>5. CASE SaveDecoding(p)
  <2>1. PICK revert \in RevertOf(p) :
          LET decoding == [registries |-> work[p].registries, revert |-> revert]
          IN  StoreDecoding(Tx(p), decoding) /\ Keep(p, "decoding", decoding)
    BY <1>5 DEF SaveDecoding
  <2> DEFINE d == [registries |-> work[p].registries, revert |-> revert]
  <2>2. revert \in BOOLEAN
    <3> DEFINE failed == Tx(p) \in Reverted
    <3>1. revert \in {TRUE} \/ revert \in {FALSE, failed}
      BY DEF RevertOf
    <3>2. failed \in BOOLEAN
      OBVIOUS
    <3> HIDE DEF failed
    <3> QED
      BY <3>1, <3>2, Zenon
  <2>3. d \in Decodings
    BY <1>2, <2>2 DEF Decodings, Work
  <2>4. StoreDecoding(Tx(p), d) /\ Keep(p, "decoding", d)
    BY <2>1
  <2> HIDE DEF d
  <2>5. StoreTypeOK'
    BY <1>2, <1>5, <2>3, <2>4 DEF SaveDecoding, StoreDecoding, TypeOK, StoreTypeOK, Optional
  <2> QED
    BY <1>3, <1>5, <2>3, <2>4, <2>5 DEF SaveDecoding
<1> QED
  BY <1>4, <1>5

LEMMA UserType ==
  ASSUME TypeOK, (\E p \in Processes : SelectRow(p)) \/ Synchronize \/ EditABI
  PROVE  TypeOK'
<1>1. CASE \E p \in Processes : SelectRow(p)
  <2>1. PICK p \in Processes, t \in Optional(Txs) :
          /\ selected' = [selected EXCEPT ![p] = t]
          /\ drawer' = [drawer EXCEPT ![p] = [about |-> t, kind |-> "row"]]
          /\ UNCHANGED <<storeVars, dialect, pc, work, edited, boundVars>>
    BY <1>1 DEF SelectRow, Optional
  <2>2. [about |-> t, kind |-> "row"] \in Drawer
    BY DEF Drawer
  <2> QED
    BY <2>1, <2>2 DEF TypeOK, StoreTypeOK, ProcessTypeOK, Underway, storeVars, boundVars
<1>2. CASE Synchronize
  BY <1>2 DEF Synchronize, TypeOK, StoreTypeOK, ProcessTypeOK, Underway, viewVars, boundVars
<1>3. CASE EditABI
  <2>1. PICK c \in Contracts, a \in Optional(ABIs) : abis' = [abis EXCEPT ![c] = a]
    BY <1>3 DEF EditABI, StoreABI, Optional
  <2>2. abis' \in [Contracts -> Optional(ABIs)]
    BY <2>1 DEF TypeOK, StoreTypeOK
  <2>3. StoreTypeOK' /\ \A p \in Processes : Underway(p)'
    BY <1>3, <2>2 DEF EditABI, TypeOK, StoreTypeOK, Underway
  <2>4. edits' \in Nat /\ edited' \in [Processes -> BOOLEAN]
    BY <1>3 DEF EditABI, TypeOK, ProcessTypeOK
  <2> QED
    BY <1>3, <2>3, <2>4 DEF EditABI, TypeOK, ProcessTypeOK, viewVars
<1> QED
  BY <1>1, <1>2, <1>3

LEMMA StutterType ==
  ASSUME TypeOK, UNCHANGED vars
  PROVE  TypeOK'
BY DEF TypeOK, StoreTypeOK, ProcessTypeOK, Underway, vars, storeVars, viewVars, boundVars

(* Every table, task and view of the inspector keeps its type, a started   *)
(* inspection has a transaction, and one that decodes has its trace: one   *)
(* step of inspect is never taken without the result of an earlier one     *)
(* (transaction_inspection_service.py, inspect).                           *)
THEOREM TypeCorrect == Spec => []TypeOK
<1>1. TypeOK /\ [Next]_vars => TypeOK'
  <2> SUFFICES ASSUME TypeOK, [Next]_vars PROVE TypeOK'
    OBVIOUS
  <2>1. ASSUME NEW p \in Processes, Inspect(p) \/ WorkerStep(p) \/ Restart(p) PROVE TypeOK'
    BY <2>1, SavingType, OuterType, ProxyType, TraceType, DecodingType DEF WorkerStep
  <2>2. CASE (\E p \in Processes : SelectRow(p)) \/ Synchronize \/ EditABI
    BY <2>2, UserType
  <2>3. CASE UNCHANGED vars
    BY <2>3, StutterType
  <2> QED
    BY <2>1, <2>2, <2>3 DEF Next
<1> QED
  BY <1>1, InitType, PTL DEF Spec

-----------------------------------------------------------------------------
(* What an endpoint has learned, and what traces say.                      *)

LEMMA TraceSteps ==
  ASSUME [Next]_vars
  PROVE  UNCHANGED <<traces, dialect>> \/ \E p \in Processes : FetchTrace(p) \/ Restart(p)
<1>1. ASSUME NEW p \in Processes, Inspect(p) \/ SelectRow(p) \/ ShowResult(p) \/ ShowError(p)
      PROVE  UNCHANGED <<traces, dialect>>
  BY <1>1 DEF Inspect, SelectRow, ShowResult, ShowError, storeVars
<1>2. ASSUME NEW p \in Processes, WorkerStep(p), ~FetchTrace(p)
      PROVE  UNCHANGED <<traces, dialect>>
  BY <1>1, <1>2 DEF WorkerStep, SaveInspection, ReceiptFails, ReadProxy, FetchProxy,
     ReadRegistries, ReadTrace, ReadDecoding, SaveDecoding, LoadActions, ReadEnrichment,
     FetchEnrichment, storeVars
<1>3. CASE Synchronize \/ EditABI \/ UNCHANGED vars
  BY <1>3 DEF Synchronize, EditABI, vars, storeVars
<1> QED
  BY <1>1, <1>2, <1>3 DEF Next

UnsupportedInv == TypeOK /\ LearnedIsTrue /\ UnsupportedIsTrue

LEMMA UnsupportedStep ==
  ASSUME UnsupportedInv, [Next]_vars
  PROVE  LearnedIsTrue' /\ UnsupportedIsTrue'
<1> USE DEF UnsupportedInv
<1>1. CASE UNCHANGED <<traces, dialect>>
  BY <1>1 DEF LearnedIsTrue, UnsupportedIsTrue
<1>2. ASSUME NEW p \in Processes, Restart(p) PROVE LearnedIsTrue' /\ UnsupportedIsTrue'
  <2>1. dialect' = [dialect EXCEPT ![p] = NothingLearned] /\ traces' = traces
    BY <1>2 DEF Restart, storeVars
  <2>2. \A e \in Endpoints : NothingLearned[e] # None
    BY NoneAssumption DEF NothingLearned
  <2> QED
    BY <2>1, <2>2 DEF TypeOK, ProcessTypeOK, LearnedIsTrue, UnsupportedIsTrue
<1>3. ASSUME NEW p \in Processes, FetchTrace(p) PROVE LearnedIsTrue' /\ UnsupportedIsTrue'
  <2>1. PICK answer :
          /\ AnswersOf(p, answer)
          /\ StoreTrace(Tx(p), TraceOf(answer))
          /\ dialect' = [dialect EXCEPT ![p] = [e \in Endpoints |->
               IF e \in AskedOf(answer) THEN answer[e].learned ELSE dialect[p][e]]]
    BY <1>3 DEF FetchTrace, AnswersOf
  <2>2. dialect[p] \in [Endpoints -> Learned]
    BY DEF TypeOK, ProcessTypeOK
  <2>3. \A e \in Endpoints : answer[e].learned = None => dialect[p][e] = None \/ ServesNothing(e)
    BY <2>1, <2>2, AnswersAreTrue DEF AnswersOf
  <2>4. TraceOf(answer) = "unsupported" => \A e \in Endpoints : ServesNothing(e)
    BY <2>1, <2>2, TraceIsTrue DEF LearnedIsTrue, ServesNothing
  <2>5. LearnedIsTrue'
    BY <2>1, <2>2, <2>3 DEF LearnedIsTrue, ServesNothing, TypeOK, ProcessTypeOK
  <2>6. UnsupportedIsTrue'
    BY <2>1, <2>4 DEF UnsupportedIsTrue, StoreTrace, ServesNothing, TypeOK, StoreTypeOK
  <2> QED
    BY <2>5, <2>6
<1> QED
  BY <1>1, <1>2, <1>3, TraceSteps

(* A stored trace says "unsupported" only if no endpoint serves a trace    *)
(* method, for any number of endpoints, whatever each of them answered or  *)
(* failed to answer before, and however processes share the table and      *)
(* restart: _trace_methods forgets a method for good only after the        *)
(* endpoint itself has refused all of them (json_rpc_inspection.py).       *)
THEOREM UnsupportedTheorem == Spec => []UnsupportedIsTrue
<1>1. Init => LearnedIsTrue /\ UnsupportedIsTrue
  BY NoneAssumption DEF Init, LearnedIsTrue, UnsupportedIsTrue, NothingLearned
<1>2. TypeOK /\ LearnedIsTrue /\ UnsupportedIsTrue /\ [Next]_vars
        => LearnedIsTrue' /\ UnsupportedIsTrue'
  BY UnsupportedStep DEF UnsupportedInv
<1> QED
  BY <1>1, <1>2, TypeCorrect, PTL DEF Spec

-----------------------------------------------------------------------------
(* The registries an inspection decodes with.                              *)

\* Nothing moves but the inspection of process p.
OnlyMoves(p) ==
  \A q \in Processes \ {p} :
    pc'[q] = pc[q] /\ work'[q] = work[q] /\ edited'[q] = edited[q]

LEMMA OthersStay ==
  ASSUME TypeOK, NEW p \in Processes, Inspect(p) \/ WorkerStep(p) \/ Restart(p)
  PROVE  OnlyMoves(p) /\ UNCHANGED abis
<1> USE DEF OnlyMoves, Goto, Keep, TypeOK, ProcessTypeOK, storeVars
<1>1. CASE Inspect(p)
  BY <1>1 DEF Inspect
<1>2. CASE Restart(p) \/ ShowResult(p) \/ ShowError(p)
  BY <1>2 DEF Restart, ShowResult, ShowError
<1>3. CASE \/ SaveInspection(p) \/ ReceiptFails(p) \/ LoadActions(p)
           \/ ReadEnrichment(p) \/ FetchEnrichment(p)
  BY <1>3 DEF SaveInspection, ReceiptFails, LoadActions, ReadEnrichment, FetchEnrichment
<1>4. CASE ReadProxy(p) \/ FetchProxy(p) \/ ReadRegistries(p)
  BY <1>4 DEF ReadProxy, FetchProxy, ReadRegistries
<1>5. CASE ReadTrace(p) \/ FetchTrace(p)
  BY <1>5 DEF ReadTrace, FetchTrace
<1>6. CASE ReadDecoding(p) \/ SaveDecoding(p)
  BY <1>6 DEF ReadDecoding, SaveDecoding
<1> QED
  BY <1>1, <1>2, <1>3, <1>4, <1>5, <1>6 DEF WorkerStep

LEMMA SameRegistries ==
  ASSUME NEW q \in Processes, UNCHANGED abis, work'[q].tx = work[q].tx,
         work'[q].proxy = work[q].proxy
  PROVE  RegistriesFor(Tx(q), work[q].proxy)' = RegistriesFor(Tx(q), work[q].proxy)
BY DEF RegistriesFor, ImplementationOf, Tx, Place

\* The inspection keeps what it read.
LEMMA StillHeld ==
  ASSUME NEW q \in Processes, RegistriesHeld(q), UNCHANGED abis, edited'[q] = edited[q],
         work'[q].tx = work[q].tx, work'[q].proxy = work[q].proxy,
         work'[q].registries = work[q].registries, work'[q].decoding = work[q].decoding,
         pc'[q] \in WithRegistries => pc[q] \in WithRegistries,
         pc'[q] \in WithDecoding => pc[q] \in WithDecoding
  PROVE  RegistriesHeld(q)'
BY SameRegistries DEF RegistriesHeld

\* An inspection that has not read its registries holds nothing yet.
LEMMA NothingHeld ==
  ASSUME NEW q \in Processes, pc'[q] \notin WithRegistries
  PROVE  RegistriesHeld(q)'
BY DEF RegistriesHeld, WithRegistries, WithTrace

LEMMA MovedTo ==
  ASSUME TypeOK, NEW p \in Processes, NEW s, NEW w, Moved(p, s, w)
  PROVE  pc'[p] = s /\ work'[p] = w
BY DEF Moved, TypeOK, ProcessTypeOK

LEMMA KeptAt ==
  ASSUME TypeOK, NEW p \in Processes, NEW v
  PROVE  /\ Keep(p, "trace", v) => work'[p] = [work[p] EXCEPT !.trace = v]
         /\ Keep(p, "decoding", v) => work'[p] = [work[p] EXCEPT !.decoding = v]
<1>1. work[p] \in Work
  BY WorkAt
<1> QED
  BY <1>1 DEF Keep, Work, TypeOK, ProcessTypeOK

(* What decoding ends with: a decoding made with the registries held.      *)
LEMMA DecodingKept ==
  ASSUME NEW p \in Processes, ReadDecoding(p) \/ SaveDecoding(p)
  PROVE  \E d : Keep(p, "decoding", d) /\ d.registries = work[p].registries
<1>1. CASE ReadDecoding(p)
  BY <1>1 DEF ReadDecoding, DecodingReusable, VersionFor
<1>2. CASE SaveDecoding(p)
  <2>1. PICK revert :
          Keep(p, "decoding", [registries |-> work[p].registries, revert |-> revert])
    BY <1>2 DEF SaveDecoding
  <2> DEFINE d == [registries |-> work[p].registries, revert |-> revert]
  <2>2. Keep(p, "decoding", d) /\ d.registries = work[p].registries
    BY <2>1
  <2> HIDE DEF d
  <2> QED
    BY <2>2
<1> QED
  BY <1>1, <1>2

LEMMA HeldStep ==
  ASSUME TypeOK, NEW p \in Processes, RegistriesHeld(p),
         Inspect(p) \/ WorkerStep(p) \/ Restart(p)
  PROVE  RegistriesHeld(p)'
<1>1. UNCHANGED abis
  BY OthersStay
<1>2. work[p] \in Work
  BY WorkAt
<1>3. pc[p] \in Steps /\ pc \in [Processes -> Steps]
  BY DEF TypeOK, ProcessTypeOK
<1>4. CASE \/ Inspect(p) \/ Restart(p) \/ ShowResult(p) \/ ShowError(p) \/ SaveInspection(p)
           \/ ReceiptFails(p) \/ ReadProxy(p) \/ FetchProxy(p)
  <2>1. pc'[p] \in {"receipt", "proxy", "idle", "failed", "registries", "fetchProxy"}
    BY <1>3, <1>4 DEF Inspect, Restart, ShowResult, ShowError, SaveInspection, ReceiptFails,
       ReadProxy, FetchProxy, Goto
  <2>2. pc'[p] \notin WithRegistries
    BY <2>1 DEF WithRegistries, WithTrace, WithDecoding, WithActions
  <2> QED
    BY <2>2, NothingHeld
<1>5. CASE ReadRegistries(p)
  <2> DEFINE r == RegistriesFor(Tx(p), work[p].proxy)
  <2>1. Keep(p, "registries", r) /\ Goto(p, "trace")
    BY <1>5 DEF ReadRegistries
  <2> HIDE DEF r
  <2>2. pc'[p] = "trace" /\ work'[p] = [work[p] EXCEPT !.registries = r]
    BY <2>1, KeepMoves, MovedTo
  <2>3. work'[p].registries = r /\ work'[p].tx = work[p].tx /\ work'[p].proxy = work[p].proxy
    BY <1>2, <2>2 DEF Work
  <2>4. RegistriesFor(Tx(p), work[p].proxy)' = r
    BY <1>1, <2>3, SameRegistries DEF r
  <2>5. pc'[p] \notin WithDecoding
    BY <2>2 DEF WithDecoding, WithActions
  <2> QED
    BY <2>3, <2>4, <2>5 DEF RegistriesHeld
<1>6. CASE \/ ReadTrace(p) \/ FetchTrace(p) \/ LoadActions(p) \/ ReadEnrichment(p)
           \/ FetchEnrichment(p)
  <2>1. edited' = edited
    BY <1>6 DEF ReadTrace, FetchTrace, LoadActions, ReadEnrichment, FetchEnrichment
  <2>2. /\ pc'[p] \in WithRegistries => pc[p] \in WithRegistries
        /\ pc'[p] \in WithDecoding => pc[p] \in WithDecoding
    BY <1>3, <1>6 DEF ReadTrace, FetchTrace, LoadActions, ReadEnrichment, FetchEnrichment, Goto,
       WithRegistries, WithTrace, WithDecoding, WithActions
  <2>3. UNCHANGED work \/ \E a : work'[p] = [work[p] EXCEPT !.trace = a]
    <3>1. UNCHANGED work \/ \E a : Keep(p, "trace", a)
      BY <1>6 DEF ReadTrace, FetchTrace, LoadActions, ReadEnrichment, FetchEnrichment
    <3> QED
      BY <3>1, KeptAt
  <2>4. /\ work'[p].tx = work[p].tx /\ work'[p].proxy = work[p].proxy
        /\ work'[p].registries = work[p].registries /\ work'[p].decoding = work[p].decoding
    BY <1>2, <2>3 DEF Work
  <2> QED
    BY <1>1, <2>1, <2>2, <2>4, StillHeld
<1>7. CASE ReadDecoding(p) \/ SaveDecoding(p)
  <2>1. PICK d : Keep(p, "decoding", d) /\ d.registries = work[p].registries
    BY <1>7, DecodingKept
  <2>2. Goto(p, "actions") /\ edited' = edited /\ pc[p] \in WithRegistries
    BY <1>7 DEF ReadDecoding, SaveDecoding, WithRegistries, WithTrace
  <2>3. work'[p] = [work[p] EXCEPT !.decoding = d]
    BY <2>1, KeptAt
  <2>4. /\ work'[p].tx = work[p].tx /\ work'[p].proxy = work[p].proxy
        /\ work'[p].registries = work[p].registries /\ work'[p].decoding = d
    BY <1>2, <2>3 DEF Work
  <2>5. RegistriesFor(Tx(p), work[p].proxy)' = RegistriesFor(Tx(p), work[p].proxy)
    BY <1>1, <2>4, SameRegistries
  <2> QED
    BY <2>1, <2>2, <2>4, <2>5 DEF RegistriesHeld
<1> QED
  BY <1>4, <1>5, <1>6, <1>7 DEF WorkerStep

AllHeld == \A p \in Processes : RegistriesHeld(p)

(* An inspection that ends without a change of the ABI list since it began *)
(* has decoded with exactly the ABIs that apply now, those of the          *)
(* implementation behind a resolved proxy included, and whatever decoding  *)
(* was stored before (transaction_inspection_service.py, inspect and       *)
(* _load_contract_context).                                                *)
THEOREM DecodedTheorem == Spec => []DecodedWithTheABIsInForce
<1>1. Init => AllHeld
  BY DEF Init, AllHeld, RegistriesHeld, WithRegistries, WithTrace, WithDecoding, WithActions
<1>2. TypeOK /\ AllHeld /\ [Next]_vars => AllHeld'
  <2> SUFFICES ASSUME TypeOK, AllHeld, [Next]_vars, NEW q \in Processes
               PROVE  RegistriesHeld(q)'
    BY DEF AllHeld
  <2>1. RegistriesHeld(q)
    BY DEF AllHeld
  <2>2. ASSUME NEW p \in Processes, Inspect(p) \/ WorkerStep(p) \/ Restart(p)
        PROVE  RegistriesHeld(q)'
    <3>1. CASE p = q
      BY <2>1, <2>2, <3>1, HeldStep
    <3>2. CASE p # q
      BY <2>1, <2>2, <3>2, OthersStay, StillHeld DEF OnlyMoves
    <3> QED
      BY <3>1, <3>2
  <2>3. CASE (\E p \in Processes : SelectRow(p)) \/ Synchronize \/ UNCHANGED vars
    <3>1. UNCHANGED <<abis, pc, work, edited>>
      BY <2>3 DEF SelectRow, Synchronize, vars, storeVars
    <3> QED
      BY <2>1, <3>1, StillHeld
  <2>4. CASE EditABI
    <3>1. pc' = pc /\ work' = work /\ edited'[q] = (pc[q] # "idle")
      BY <2>4 DEF EditABI
    <3>2. pc[q] \in WithRegistries => edited'[q]
      BY <3>1 DEF WithRegistries, WithTrace, WithDecoding, WithActions
    <3> QED
      BY <2>1, <3>1, <3>2 DEF RegistriesHeld
  <2> QED
    BY <2>2, <2>3, <2>4 DEF Next
<1>3. AllHeld => DecodedWithTheABIsInForce
  BY DEF AllHeld, RegistriesHeld, DecodedWithTheABIsInForce, WithRegistries, WithTrace,
     WithDecoding, WithActions
<1> QED
  BY <1>1, <1>2, <1>3, TypeCorrect, PTL DEF Spec

-----------------------------------------------------------------------------
(* A single process: what the tables hold is what the inspection holds.    *)

\* Until it ends, an inspection is of one transaction and of one kind.
SameInspection(p) ==
  /\ work'[p].tx = work[p].tx /\ work'[p].force = work[p].force
  /\ work'[p].cached = work[p].cached

LEMMA KeepSame ==
  ASSUME TypeOK, NEW p \in Processes,
         \/ UNCHANGED work
         \/ \E v : \/ Keep(p, "proxy", v) \/ Keep(p, "registries", v)
                   \/ Keep(p, "trace", v) \/ Keep(p, "decoding", v)
  PROVE  SameInspection(p)
<1>1. work[p] \in Work /\ work \in [Processes -> Work]
  BY WorkAt DEF TypeOK, ProcessTypeOK
<1>2. ASSUME NEW v, NEW f \in {"proxy", "registries", "trace", "decoding"}, Keep(p, f, v)
      PROVE  SameInspection(p)
  BY <1>1, <1>2 DEF Keep, SameInspection, Work
<1> QED
  BY <1>2 DEF SameInspection

LEMMA WorkerSame ==
  ASSUME TypeOK, NEW p \in Processes, WorkerStep(p), ~ShowResult(p), ~ShowError(p)
  PROVE  SameInspection(p)
<1>1. CASE \/ SaveInspection(p) \/ ReceiptFails(p) \/ LoadActions(p)
           \/ ReadEnrichment(p) \/ FetchEnrichment(p)
  BY <1>1, KeepSame
  DEF SaveInspection, ReceiptFails, LoadActions, ReadEnrichment, FetchEnrichment
<1>2. CASE ReadProxy(p) \/ FetchProxy(p) \/ ReadRegistries(p)
  BY <1>2, KeepSame DEF ReadProxy, FetchProxy, ReadRegistries
<1>3. CASE ReadTrace(p) \/ FetchTrace(p)
  BY <1>3, KeepSame DEF ReadTrace, FetchTrace
<1>4. CASE ReadDecoding(p) \/ SaveDecoding(p)
  BY <1>4, KeepSame, DecodingKept
<1> QED
  BY <1>1, <1>2, <1>3, <1>4 DEF WorkerStep

LEMMA TablesStep ==
  ASSUME TypeOK, NEW p \in Processes, TablesHold(p),
         Inspect(p) \/ WorkerStep(p) \/ Restart(p)
  PROVE  TablesHold(p)'
<1>1. work[p] \in Work /\ pc[p] \in Steps /\ pc \in [Processes -> Steps]
  BY WorkAt DEF TypeOK, ProcessTypeOK
<1>2. pc[p] # "idle" => Tx(p) \in Txs
  BY DEF TypeOK, Underway, Tx
<1>3. CASE \/ Inspect(p) \/ Restart(p) \/ ShowResult(p) \/ ShowError(p) \/ SaveInspection(p)
           \/ ReceiptFails(p) \/ ReadProxy(p) \/ FetchProxy(p) \/ ReadRegistries(p)
  <2>1. pc'[p] \in {"receipt", "proxy", "idle", "failed", "registries", "fetchProxy", "trace"}
    BY <1>1, <1>3 DEF Inspect, Restart, ShowResult, ShowError, SaveInspection, ReceiptFails,
       ReadProxy, FetchProxy, ReadRegistries, Goto
  <2> QED
    BY <2>1 DEF TablesHold, WithTrace, WithDecoding, WithActions
<1>4. CASE ReadTrace(p)
  <2>1. CASE TraceReusable(p)
    <3>1. Keep(p, "trace", traces[Tx(p)]) /\ pc'[p] = "decoding" /\ traces' = traces
      BY <1>1, <1>4, <2>1 DEF ReadTrace, Goto, storeVars
    <3>2. work'[p].trace = traces[Tx(p)] /\ work'[p].tx = work[p].tx
      <4>1. work'[p] = [work[p] EXCEPT !.trace = traces[Tx(p)]]
        BY <3>1, KeptAt
      <4> QED
        BY <1>1, <4>1 DEF Work
    <3> QED
      BY <3>1, <3>2 DEF TablesHold, Tx, WithDecoding, WithActions
  <2>2. CASE ~TraceReusable(p)
    <3>1. pc'[p] = "fetchTrace"
      BY <1>1, <1>4, <2>2 DEF ReadTrace, Goto
    <3> QED
      BY <3>1 DEF TablesHold, WithTrace, WithDecoding, WithActions
  <2> QED
    BY <2>1, <2>2
<1>5. CASE FetchTrace(p)
  <2>1. PICK a : StoreTrace(Tx(p), a) /\ Keep(p, "trace", a)
    BY <1>5 DEF FetchTrace
  <2>2. pc'[p] = "decoding" /\ Tx(p) \in Txs
    BY <1>1, <1>2, <1>5 DEF FetchTrace, Goto
  <2>3. work'[p].trace = a /\ work'[p].tx = work[p].tx
    <3>1. work'[p] = [work[p] EXCEPT !.trace = a]
      BY <2>1, KeptAt
    <3> QED
      BY <1>1, <3>1 DEF Work
  <2>4. traces'[Tx(p)] = a
    BY <2>1, <2>2 DEF StoreTrace, TypeOK, StoreTypeOK
  <2> QED
    BY <2>2, <2>3, <2>4 DEF TablesHold, Tx, WithDecoding, WithActions
<1>6. CASE ReadDecoding(p) \/ SaveDecoding(p)
  <2>1. PICK d : Keep(p, "decoding", d) /\ decodings'[Tx(p)] = d
    <3>1. CASE ReadDecoding(p)
      BY <3>1 DEF ReadDecoding, storeVars
    <3>2. CASE SaveDecoding(p)
      <4>1. PICK d : Keep(p, "decoding", d) /\ StoreDecoding(Tx(p), d)
        BY <3>2 DEF SaveDecoding
      <4>2. Tx(p) \in Txs
        BY <1>2, <3>2 DEF SaveDecoding
      <4> QED
        BY <4>1, <4>2 DEF StoreDecoding, TypeOK, StoreTypeOK
    <3> QED
      BY <1>6, <3>1, <3>2
  <2>2. pc'[p] = "actions" /\ pc[p] \in WithTrace /\ traces' = traces
    BY <1>1, <1>6 DEF ReadDecoding, SaveDecoding, Goto, storeVars, WithTrace
  <2>3. work'[p].decoding = d /\ work'[p].tx = work[p].tx /\ work'[p].trace = work[p].trace
    <3>1. work'[p] = [work[p] EXCEPT !.decoding = d]
      BY <2>1, KeptAt
    <3> QED
      BY <1>1, <3>1 DEF Work
  <2> QED
    BY <2>1, <2>2, <2>3 DEF TablesHold, Tx, WithActions
<1>7. CASE LoadActions(p)
  <2>1. pc[p] \in WithTrace /\ pc[p] \in WithDecoding /\ UNCHANGED <<work, traces, decodings>>
    BY <1>7 DEF LoadActions, WithTrace, WithDecoding
  <2>2. actions'[Tx(p)] = DerivedActions(p)
    BY <1>2, <1>7 DEF LoadActions, StoreActions, TypeOK, StoreTypeOK
  <2>3. DerivedActions(p)' = DerivedActions(p) /\ Tx(p)' = Tx(p)
    BY <2>1 DEF DerivedActions, Tx
  <2> QED
    BY <2>1, <2>2, <2>3 DEF TablesHold
<1>8. CASE ReadEnrichment(p) \/ FetchEnrichment(p)
  <2>1. pc[p] \in WithActions /\ UNCHANGED <<work, traces, decodings, actions>>
    BY <1>8 DEF ReadEnrichment, FetchEnrichment, WithActions, storeVars
  <2>2. DerivedActions(p)' = DerivedActions(p) /\ Tx(p)' = Tx(p)
    BY <2>1 DEF DerivedActions, Tx
  <2> QED
    BY <2>1, <2>2 DEF TablesHold, WithTrace, WithDecoding
<1> QED
  BY <1>3, <1>4, <1>5, <1>6, <1>7, <1>8 DEF WorkerStep

AloneHolds == \A p \in Processes : Processes = {p} => TablesHold(p)

(* While one process is running, what an inspection leaves behind fits     *)
(* together: the stored actions are those of the stored decoding and the   *)
(* stored trace, also when an earlier inspection was interrupted between   *)
(* the saves or the trace came later (transaction_inspection_service.py,   *)
(* _load_actions).                                                         *)
THEOREM ActionsTheorem == Spec => []ActionsFollowEvidence
<1>1. Init => AloneHolds
  BY DEF Init, AloneHolds, TablesHold, WithTrace, WithDecoding, WithActions
<1>2. TypeOK /\ AloneHolds /\ [Next]_vars => AloneHolds'
  <2> SUFFICES ASSUME TypeOK, [Next]_vars, NEW p \in Processes, Processes = {p}, TablesHold(p)
               PROVE  TablesHold(p)'
    BY DEF AloneHolds
  <2>1. CASE \E q \in Processes : Inspect(q) \/ WorkerStep(q) \/ Restart(q)
    BY <2>1, TablesStep
  <2>2. CASE (\E q \in Processes : SelectRow(q)) \/ Synchronize \/ EditABI \/ UNCHANGED vars
    <3>1. UNCHANGED <<pc, work, traces, decodings, actions>>
      BY <2>2 DEF SelectRow, Synchronize, EditABI, vars, storeVars
    <3>2. DerivedActions(p)' = DerivedActions(p) /\ Tx(p)' = Tx(p)
      BY <3>1 DEF DerivedActions, Tx
    <3> QED
      BY <3>1, <3>2 DEF TablesHold
  <2> QED
    BY <2>1, <2>2 DEF Next
<1>3. TypeOK /\ AloneHolds => ActionsFollowEvidence
  <2> SUFFICES ASSUME TypeOK, NEW p \in Processes, TablesHold(p), pc[p] = "done"
               PROVE  /\ decodings[Tx(p)] # None /\ traces[Tx(p)] # None
                      /\ actions[Tx(p)] = NormalizedActions(decodings[Tx(p)], traces[Tx(p)])
    BY DEF AloneHolds, ActionsFollowEvidence
  <2>1. pc[p] \in WithTrace /\ pc[p] \in WithDecoding /\ pc[p] \in WithActions
    BY DEF WithTrace, WithDecoding, WithActions
  <2>2. work[p].decoding \in Decodings /\ work[p].trace \in TraceStatus
    BY <2>1, WorkAt DEF Work, TypeOK, Underway
  <2> QED
    BY <2>1, <2>2, NoneAssumption, NoDecodingAssumption
    DEF TablesHold, DerivedActions, TraceStatus
<1> QED
  BY <1>1, <1>2, <1>3, TypeCorrect, PTL DEF Spec

-----------------------------------------------------------------------------
(* A single process and no forced refresh: evidence is kept.               *)

LEMMA MissingStep ==
  ASSUME TypeOK, NEW p \in Processes, FetchesWhatIsMissing(p), Forces \subseteq {FALSE},
         Inspect(p) \/ WorkerStep(p) \/ Restart(p)
  PROVE  FetchesWhatIsMissing(p)'
<1>1. work[p] \in Work /\ pc[p] \in Steps /\ pc \in [Processes -> Steps]
      /\ work \in [Processes -> Work]
  BY WorkAt DEF TypeOK, ProcessTypeOK
<1>2. pc[p] # "idle" => Tx(p) \in Txs
  BY DEF TypeOK, Underway, Tx
<1>3. CASE Inspect(p)
  <2>1. PICK force \in Forces :
          work' = [work EXCEPT ![p] = [NoWork EXCEPT !.tx = selected[p], !.force = force,
                     !.cached = ~force /\ selected[p] \in receipts]]
    BY <1>3 DEF Inspect
  <2>2. /\ work'[p].tx = selected[p] /\ work'[p].force = FALSE
        /\ work'[p].cached = (selected[p] \in receipts)
    <3> DEFINE cached == ~force /\ selected[p] \in receipts
    <3>1. force = FALSE
      OBVIOUS
    <3>2. work' = [work EXCEPT ![p] = [NoWork EXCEPT !.tx = selected[p], !.force = force,
                     !.cached = cached]]
      BY <2>1
    <3>3. cached = (selected[p] \in receipts)
      BY <3>1
    <3> HIDE DEF cached
    <3>4. work'[p].tx = selected[p] /\ work'[p].force = force /\ work'[p].cached = cached
      BY <1>1, <3>2 DEF NoWork
    <3> QED
      BY <3>1, <3>3, <3>4
  <2>3. pc'[p] \in {"proxy", "receipt"} /\ UNCHANGED <<receipts, decodings>>
    BY <1>1, <1>3 DEF Inspect, Goto, storeVars
  <2>4. selected[p] \in Txs
    BY <1>3 DEF Inspect, TypeOK, ProcessTypeOK, Optional
  <2> QED
    BY <2>2, <2>3, <2>4 DEF FetchesWhatIsMissing, Tx
<1>4. CASE Restart(p) \/ ShowResult(p) \/ ShowError(p)
  <2>1. pc'[p] = "idle" /\ work'[p] = NoWork /\ UNCHANGED <<receipts, decodings>>
    BY <1>1, <1>4 DEF Restart, ShowResult, ShowError, Goto, storeVars
  <2> QED
    BY <2>1 DEF FetchesWhatIsMissing, NoWork
<1>5. CASE WorkerStep(p) /\ ~ShowResult(p) /\ ~ShowError(p)
  <2>1. SameInspection(p) /\ Tx(p)' = Tx(p)
    BY <1>5, WorkerSame DEF SameInspection, Tx
  <2>2. CASE \/ SaveInspection(p) \/ ReceiptFails(p) \/ ReadProxy(p) \/ FetchProxy(p)
             \/ ReadRegistries(p) \/ ReadTrace(p) \/ FetchTrace(p)
    <3>1. decodings' = decodings /\ receipts \subseteq receipts'
      BY <2>2 DEF SaveInspection, StoreInspection, ReceiptFails, ReadProxy, FetchProxy,
         ReadRegistries, ReadTrace, FetchTrace, storeVars
    <3>2. pc[p] \notin WithDecoding \cup {"idle"}
      BY <2>2 DEF SaveInspection, ReceiptFails, ReadProxy, FetchProxy,
         ReadRegistries, ReadTrace, FetchTrace, WithDecoding, WithActions
    <3>3. pc'[p] = "fetchProxy" => ~Settled(proxies'[Place(Tx(p))])
      <4>1. pc'[p] = "fetchProxy" => ReadProxy(p) /\ ~ProxyReusable(p) /\ proxies' = proxies
        BY <1>1, <2>2 DEF SaveInspection, ReceiptFails, ReadProxy, FetchProxy,
           ReadRegistries, ReadTrace, FetchTrace, Goto, storeVars
      <4>2. pc[p] # "idle" => proxies[Place(Tx(p))] \in Optional(ProxyStatus)
        BY <1>2 DEF TypeOK, StoreTypeOK, Place, Places
      <4> QED
        BY <3>2, <4>1, <4>2 DEF ProxyReusable, Settled, Optional
    <3>4. pc'[p] = "fetchTrace" => ~Settled(traces'[Tx(p)])
      <4>1. pc'[p] = "fetchTrace" => ReadTrace(p) /\ ~TraceReusable(p) /\ traces' = traces
        BY <1>1, <2>2 DEF SaveInspection, ReceiptFails, ReadProxy, FetchProxy,
           ReadRegistries, ReadTrace, FetchTrace, Goto, storeVars
      <4>2. pc[p] # "idle" => traces[Tx(p)] \in Optional(TraceStatus)
        BY <1>2 DEF TypeOK, StoreTypeOK
      <4> QED
        BY <3>2, <4>1, <4>2 DEF TraceReusable, Settled, Optional, FetchesWhatIsMissing
    <3> QED
      BY <2>1, <3>1, <3>2, <3>3, <3>4 DEF FetchesWhatIsMissing, SameInspection
  <2>3. CASE \/ ReadDecoding(p) \/ SaveDecoding(p) \/ LoadActions(p)
             \/ ReadEnrichment(p) \/ FetchEnrichment(p)
    <3>1. pc'[p] \in WithDecoding
      BY <1>1, <2>3 DEF ReadDecoding, SaveDecoding, LoadActions, ReadEnrichment,
         FetchEnrichment, Goto, WithDecoding, WithActions
    <3>2. receipts' = receipts
      BY <2>3 DEF ReadDecoding, SaveDecoding, LoadActions, ReadEnrichment,
         FetchEnrichment, storeVars
    <3>3. ASSUME NEW t \in Txs, decodings'[t] # None PROVE t \in receipts
      <4>1. decodings' = decodings \/ (Tx(p) \in receipts /\ \E d : StoreDecoding(Tx(p), d))
        BY <2>3 DEF ReadDecoding, SaveDecoding, LoadActions, ReadEnrichment,
           FetchEnrichment, HasInspection, storeVars
      <4> QED
        BY <3>3, <4>1 DEF StoreDecoding, FetchesWhatIsMissing, TypeOK, StoreTypeOK
    <3>4. pc'[p] # "fetchProxy" /\ pc'[p] # "fetchTrace"
      BY <3>1 DEF WithDecoding, WithActions
    <3> QED
      BY <2>1, <3>1, <3>2, <3>3, <3>4 DEF FetchesWhatIsMissing, SameInspection
  <2> QED
    BY <1>5, <2>2, <2>3 DEF WorkerStep
<1> QED
  BY <1>3, <1>4, <1>5

LEMMA OthersMissing ==
  ASSUME NEW p \in Processes, FetchesWhatIsMissing(p),
         UNCHANGED <<pc, work, proxies, traces, decodings, receipts>>
  PROVE  FetchesWhatIsMissing(p)'
BY DEF FetchesWhatIsMissing, Tx, Place, Settled

\* The part of EvidenceIsKept that is about one table, as a step formula.
TracesKept == \A t \in Txs : Settled(traces[t]) => Settled(traces'[t])
ProxiesKept == \A k \in Places : Settled(proxies[k]) => proxies'[k] = proxies[k]
RevertsKept == \A t \in Txs : decodings[t] # None /\ decodings[t].revert => decodings'[t].revert

LEMMA TracesStep ==
  ASSUME TypeOK, NEW p \in Processes, FetchesWhatIsMissing(p), Processes = {p}, [Next]_vars
  PROVE  TracesKept
<1>1. CASE UNCHANGED traces
  BY <1>1 DEF TracesKept
<1>2. CASE FetchTrace(p)
  <2>1. ~Settled(traces[Tx(p)])
    BY <1>2 DEF FetchTrace, FetchesWhatIsMissing
  <2>2. PICK a : traces' = [traces EXCEPT ![Tx(p)] = a]
    BY <1>2 DEF FetchTrace, StoreTrace
  <2> QED
    BY <2>1, <2>2 DEF TracesKept, TypeOK, StoreTypeOK
<1>3. CASE Restart(p)
  BY <1>1, <1>3 DEF Restart, storeVars
<1> QED
  BY <1>1, <1>2, <1>3, TraceSteps

\* The tables of proxies and of decodings change only where they are filled.
LEMMA FillingSteps ==
  ASSUME [Next]_vars
  PROVE  /\ UNCHANGED proxies \/ \E p \in Processes : FetchProxy(p)
         /\ UNCHANGED decodings \/ \E p \in Processes : SaveDecoding(p)
<1>1. ASSUME NEW p \in Processes,
             Inspect(p) \/ SelectRow(p) \/ ShowResult(p) \/ ShowError(p) \/ Restart(p)
      PROVE  UNCHANGED <<proxies, decodings>>
  BY <1>1 DEF Inspect, SelectRow, ShowResult, ShowError, Restart, storeVars
<1>2. ASSUME NEW p \in Processes, WorkerStep(p)
      PROVE  /\ UNCHANGED proxies \/ FetchProxy(p)
             /\ UNCHANGED decodings \/ SaveDecoding(p)
  BY <1>1, <1>2 DEF WorkerStep, SaveInspection, ReceiptFails, ReadProxy, FetchProxy,
     ReadRegistries, ReadTrace, FetchTrace, ReadDecoding, SaveDecoding, LoadActions,
     ReadEnrichment, FetchEnrichment, storeVars
<1>3. CASE Synchronize \/ EditABI \/ UNCHANGED vars
  BY <1>3 DEF Synchronize, EditABI, vars, storeVars
<1> QED
  BY <1>1, <1>2, <1>3 DEF Next

LEMMA ProxiesStep ==
  ASSUME TypeOK, NEW p \in Processes, FetchesWhatIsMissing(p), Processes = {p}, [Next]_vars
  PROVE  ProxiesKept
<1>1. CASE UNCHANGED proxies
  BY <1>1 DEF ProxiesKept
<1>2. CASE FetchProxy(p)
  <2>1. ~Settled(proxies[Place(Tx(p))])
    BY <1>2 DEF FetchProxy, FetchesWhatIsMissing
  <2>2. PICK a : proxies' = [proxies EXCEPT ![Place(Tx(p))] = a]
    BY <1>2 DEF FetchProxy, StoreProxy
  <2> QED
    BY <2>1, <2>2 DEF ProxiesKept, TypeOK, StoreTypeOK
<1> QED
  BY <1>1, <1>2, FillingSteps

LEMMA RevertsStep ==
  ASSUME TypeOK, NEW p \in Processes, FetchesWhatIsMissing(p), Processes = {p}, [Next]_vars
  PROVE  RevertsKept
<1>1. CASE UNCHANGED decodings
  BY <1>1 DEF RevertsKept
<1>2. CASE SaveDecoding(p)
  <2>1. pc[p] = "decoding" /\ Tx(p) \in Txs
    BY <1>2 DEF SaveDecoding, TypeOK, Underway, Tx
  <2>2. decodings[Tx(p)] # None => work[p].cached
    BY <2>1 DEF FetchesWhatIsMissing, WithDecoding, WithActions
  <2>3. PICK revert \in RevertOf(p) :
          decodings' = [decodings EXCEPT ![Tx(p)] =
                          [registries |-> work[p].registries, revert |-> revert]]
    BY <1>2 DEF SaveDecoding, StoreDecoding
  <2>4. decodings'[Tx(p)].revert = revert
        /\ \A t \in Txs \ {Tx(p)} : decodings'[t] = decodings[t]
    BY <2>1, <2>3 DEF TypeOK, StoreTypeOK
  <2>5. decodings[Tx(p)] # None /\ decodings[Tx(p)].revert => revert = TRUE
    BY <2>2, <2>3 DEF RevertOf
  <2> QED
    BY <2>4, <2>5 DEF RevertsKept
<1> QED
  BY <1>1, <1>2, FillingSteps

(* What was once read from a block stays: with one process and no forced   *)
(* refresh a trace, a proxy resolution or revert bytes are never replaced  *)
(* by the record of a later failure ("Temporary failures are diagnostic    *)
(* records, not durable capability results", transaction_inspection_       *)
(* service.py:382), whatever was interrupted or edited in between.         *)
THEOREM EvidenceTheorem ==
  ASSUME NEW p \in Processes, Processes = {p}, Forces \subseteq {FALSE}
  PROVE  Spec => EvidenceIsKept
<1> DEFINE Inv == FetchesWhatIsMissing(p)
<1>1. Init => Inv
  BY DEF Init, FetchesWhatIsMissing, NoWork
<1>2. TypeOK /\ Inv /\ [Next]_vars => Inv'
  <2> SUFFICES ASSUME TypeOK, FetchesWhatIsMissing(p), [Next]_vars
               PROVE  FetchesWhatIsMissing(p)'
    OBVIOUS
  <2>1. CASE \E q \in Processes : Inspect(q) \/ WorkerStep(q) \/ Restart(q)
    BY <2>1, MissingStep
  <2>2. CASE (\E q \in Processes : SelectRow(q)) \/ Synchronize \/ EditABI \/ UNCHANGED vars
    <3>1. UNCHANGED <<pc, work, proxies, traces, decodings, receipts>>
      BY <2>2 DEF SelectRow, Synchronize, EditABI, vars, storeVars
    <3> QED
      BY <3>1, OthersMissing
  <2> QED
    BY <2>1, <2>2 DEF Next
<1>3. TypeOK /\ Inv /\ [Next]_vars => [TracesKept /\ ProxiesKept /\ RevertsKept]_vars
  BY TracesStep, ProxiesStep, RevertsStep
<1>4. [][TracesKept /\ ProxiesKept /\ RevertsKept]_vars => EvidenceIsKept
  BY PTL DEF EvidenceIsKept, TracesKept, ProxiesKept, RevertsKept
<1> QED
  BY <1>1, <1>2, <1>3, <1>4, TypeCorrect, PTL DEF Spec

-----------------------------------------------------------------------------
(* WalletActions: the actions that normalize makes of the evidence.        *)

\* What normalize has before it: one receipt, and the evidence that came with it.
EvidenceOK ==
  /\ head = Nobody \/ head \in Heads
  /\ head = Nobody => derived = Nobody /\ ~traced
  /\ events \in Seq(LogEvents) /\ frames \in Seq(Frames)
  /\ frames # <<>> => traced

\* Every movement of M is in one transfer or swap of A, and these hold no other.
Once(A, M) ==
  /\ \A ref \in M : \E a \in A : MovesAssets(a) /\ ref \in a.cites
  /\ \A a, b \in A : MovesAssets(a) /\ MovesAssets(b) /\ a.cites \cap b.cites # {} => a = b
  /\ \A a \in A : MovesAssets(a) => a.cites \subseteq M /\ Cardinality(a.cites) = Len(a.assets)

LEMMA OnceUnion ==
  ASSUME NEW A, NEW B, NEW M, NEW N, Once(A, M), Once(B, N), M \cap N = {}
  PROVE  Once(A \cup B, M \cup N)
BY DEF Once

\* Actions that move nothing add no movement.
LEMMA OnceBeside ==
  ASSUME NEW A, NEW B, NEW M, Once(A, M), \A b \in B : ~MovesAssets(b)
  PROVE  Once(A \cup B, M)
BY DEF Once

LEMMA OnceCounts ==
  ASSUME NEW A, NEW M, Once(A, M)
  PROVE  /\ \A ref \in M : Cardinality({a \in A : MovesAssets(a) /\ ref \in a.cites}) = 1
         /\ \A a \in A : MovesAssets(a) =>
              a.cites \subseteq M /\ Cardinality(a.cites) = Len(a.assets)
<1>1. ASSUME NEW ref \in M
      PROVE  Cardinality({a \in A : MovesAssets(a) /\ ref \in a.cites}) = 1
  <2>1. PICK a \in A : MovesAssets(a) /\ ref \in a.cites  BY <1>1 DEF Once
  <2>2. {b \in A : MovesAssets(b) /\ ref \in b.cites} = {a}  BY <2>1 DEF Once
  <2>3. QED  BY <2>2, FS_Singleton
<1>2. QED  BY <1>1 DEF Once

\* A transfer before swaps are looked for: one asset, from one piece of evidence.
OneEach(A) ==
  \A a \in A : /\ a.kind # "swap"
               /\ a.kind = "transfer"
                    => \E d, of, ref : a.assets = <<Asset(d, of)>> /\ a.cites = {ref}

LEMMA SwapKeepsOnce ==
  ASSUME NEW A, NEW M, Once(A, M), OneEach(A), IsFiniteSet(Transfers(A, "out")),
         IsFiniteSet(Transfers(A, "in"))
  PROVE  Once(CollapseSwap(A), M)
<1>1. CASE ~SimpleSwap(A)  BY <1>1 DEF CollapseSwap
<1>2. CASE SimpleSwap(A)
  <2>1. PICK o : Transfers(A, "out") = {o}
    BY <1>2, FS_Singleton DEF SimpleSwap
  <2>2. PICK n : Transfers(A, "in") = {n}
    BY <1>2, FS_Singleton DEF SimpleSwap
  <2> DEFINE w == SwapOf(o, n)
             B == A \ {o, n}
  <2>3. CollapseSwap(A) = B \cup {w}
    BY <1>2, <2>1, <2>2 DEF CollapseSwap
  <2>4. o \in A /\ o.kind = "transfer" /\ HasDirection(o, "out")
    BY <2>1 DEF Transfers
  <2>5. n \in A /\ n.kind = "transfer" /\ HasDirection(n, "in")
    BY <2>2 DEF Transfers
  <2>6. PICK d, of, r : o.assets = <<Asset(d, of)>> /\ o.cites = {r}
    BY <2>4 DEF OneEach
  <2>7. PICK e, og, s : n.assets = <<Asset(e, og)>> /\ n.cites = {s}
    BY <2>5 DEF OneEach
  <2>8. d = "out"  BY <2>4, <2>6 DEF HasDirection, Asset
  <2>9. e = "in"  BY <2>5, <2>7 DEF HasDirection, Asset
  <2>10. o # n
    <3>1. Asset(d, of) # Asset(e, og)  BY <2>8, <2>9 DEF Asset
    <3>2. QED  BY <3>1, <2>6, <2>7
  <2>11. MovesAssets(o) /\ MovesAssets(n)  BY <2>4, <2>5 DEF MovesAssets
  <2>12. r # s  BY <2>4, <2>5, <2>6, <2>7, <2>10, <2>11 DEF Once
  <2>13. r \in M /\ s \in M  BY <2>4, <2>5, <2>6, <2>7, <2>11 DEF Once
  <2>14. w.cites = {r, s} /\ Cardinality(w.cites) = 2
    <3>1. w.cites = {r, s}  BY <2>6, <2>7 DEF SwapOf, Act
    <3>2. Cardinality({r}) = 1 /\ IsFiniteSet({r})  BY FS_Singleton
    <3>3. s \notin {r}  BY <2>12
    <3>4. Cardinality({r} \cup {s}) = Cardinality({r}) + 1  BY <3>2, <3>3, FS_AddElement, Zenon
    <3>5. {r} \cup {s} = {r, s}  OBVIOUS
    <3>6. QED  BY <3>1, <3>2, <3>4, <3>5
  <2>15. Len(w.assets) = 2  BY <2>6, <2>7 DEF SwapOf, Act
  <2>16. MovesAssets(w)  BY DEF SwapOf, Act, MovesAssets
  <2> HIDE DEF w
  <2>17. \A ref \in M : \E a \in B \cup {w} : MovesAssets(a) /\ ref \in a.cites
    BY <2>6, <2>7, <2>14, <2>16 DEF Once
  <2>18. \A a \in B : MovesAssets(a) => a.cites \cap w.cites = {}
    BY <2>4, <2>5, <2>6, <2>7, <2>11, <2>14 DEF Once
  <2>19. \A a, b \in B \cup {w} : MovesAssets(a) /\ MovesAssets(b) /\ a.cites \cap b.cites # {} => a = b
    BY <2>18 DEF Once
  <2>20. \A a \in B \cup {w} : MovesAssets(a)
           => a.cites \subseteq M /\ Cardinality(a.cites) = Len(a.assets)
    BY <2>13, <2>14, <2>15 DEF Once
  <2>21. QED  BY <2>3, <2>17, <2>19, <2>20 DEF Once
<1>3. QED  BY <1>1, <1>2

-----------------------------------------------------------------------------
(* One lemma for each rule: which movements it tells.                      *)

ValueMoves == {<<"value", 0>> : v \in {b \in {head.value} : b}}
LogMoves == {<<"log", i>> : i \in {j \in DOMAIN events : events[j].name \in TransferEvents}}
TraceMoves == {<<"trace", k + 1>> : k \in {j \in DOMAIN frames : frames[j].value}}
CallMoves ==
  {<<"call", 0>> : v \in {b \in {head.call} :
      /\ b = "transfer"
      /\ \A i \in DOMAIN events : /\ events[i].name \notin TransferEvents \cup ApprovalEvents
                                /\ ~IsBridgeEvent(events[i])}}

LEMMA MovementsByRule == Movements = ValueMoves \cup LogMoves \cup TraceMoves \cup CallMoves
BY DEF Movements, ValueMoves, LogMoves, TraceMoves, CallMoves

\* An action of one piece of evidence and one asset.
LEMMA OneCite ==
  ASSUME NEW a, NEW asset, NEW ref, a.cites = {ref}, a.assets = <<asset>>
  PROVE  Cardinality(a.cites) = Len(a.assets)
<1>1. Cardinality({ref}) = 1  BY FS_Singleton
<1>2. Len(<<asset>>) = 1  OBVIOUS
<1>3. QED  BY <1>1, <1>2

LEMMA DeploymentMovesNothing == \A a \in DeploymentActions : ~MovesAssets(a)
BY DEF DeploymentActions, Act, MovesAssets

LEMMA BridgeMovesNothing == \A a \in BridgeObservations : a.kind = "bridge" /\ ~MovesAssets(a)
BY DEF BridgeObservations, EventObservations, CallObservation, Bridging, MovesAssets

LEMMA NativeOnce == head \in Heads => Once(NativeValueActions, ValueMoves)
<1>1. ASSUME head \in Heads PROVE Once(NativeValueActions, ValueMoves)
  <2> DEFINE a == Act(<<2, 0>>, "transfer", head.status, <<Asset("out", Native)>>, {<<"value", 0>>})
  <2>1. /\ a.cites = {<<"value", 0>>} /\ a.kind = "transfer"
        /\ a.assets = <<Asset("out", Native)>>
    BY DEF Act
  <2>2. NativeValueActions = IF head.value THEN {a} ELSE {}  BY DEF NativeValueActions
  <2>3. ValueMoves = IF head.value THEN {<<"value", 0>>} ELSE {}  BY DEF ValueMoves
  <2> HIDE DEF a
  <2>4. Cardinality(a.cites) = Len(a.assets)  BY <2>1, OneCite
  <2>5. QED  BY <2>1, <2>2, <2>3, <2>4 DEF Once, MovesAssets
<1>2. QED  BY <1>1

LEMMA EventActionForm ==
  ASSUME NEW i \in DOMAIN events
  PROVE  /\ EventAction(i).cites = {<<"log", i>>}
         /\ Cardinality(EventAction(i).cites) = Len(EventAction(i).assets)
         /\ EventAction(i).place = <<4, i>>
         /\ EventAction(i).kind = IF events[i].name \in TransferEvents THEN "transfer" ELSE "approval"
         /\ \E d, of : EventAction(i).assets = <<Asset(d, of)>>
<1> DEFINE e == events[i]
           a == EventAction(i)
           d == IF e.name \in TransferEvents THEN Direction(e.from, e.to) ELSE "neutral"
<1>1. a.cites = {<<"log", i>>} /\ a.place = <<4, i>>  BY DEF EventAction, Act
<1>2. a.kind = IF e.name \in TransferEvents THEN "transfer" ELSE "approval"
  BY DEF EventAction, Act
<1>3. a.assets = <<Asset(d, e.at)>>  BY DEF EventAction, Act
<1> HIDE DEF a, d
<1>4. Cardinality(a.cites) = Len(a.assets)  BY <1>1, <1>3, OneCite
<1>5. \E dir, of : a.assets = <<Asset(dir, of)>>  BY <1>3
<1>6. QED  BY <1>1, <1>2, <1>4, <1>5 DEF a

LEMMA EventsOnce == Once(EventActions, LogMoves)
<1>1. ASSUME NEW a \in EventActions, MovesAssets(a)
      PROVE  \E i \in DOMAIN events : /\ events[i].name \in TransferEvents
                                      /\ a = EventAction(i) /\ a.cites = {<<"log", i>>}
                                      /\ Cardinality(a.cites) = Len(a.assets)
  <2>1. PICK i \in DOMAIN events : a = EventAction(i)  BY <1>1 DEF EventActions
  <2>2. QED  BY <1>1, <2>1, EventActionForm DEF MovesAssets
<1>2. ASSUME NEW ref \in LogMoves
      PROVE  \E a \in EventActions : MovesAssets(a) /\ ref \in a.cites
  <2>1. PICK i \in DOMAIN events : events[i].name \in TransferEvents /\ ref = <<"log", i>>
    BY <1>2 DEF LogMoves
  <2>2. EventAction(i) \in EventActions  BY <2>1 DEF EventActions
  <2>3. QED  BY <2>1, <2>2, EventActionForm DEF MovesAssets
<1>3. ASSUME NEW a \in EventActions, NEW b \in EventActions, MovesAssets(a), MovesAssets(b),
             a.cites \cap b.cites # {}
      PROVE  a = b
  <2>1. PICK i \in DOMAIN events : a = EventAction(i) /\ a.cites = {<<"log", i>>}  BY <1>1, <1>3
  <2>2. PICK j \in DOMAIN events : b = EventAction(j) /\ b.cites = {<<"log", j>>}  BY <1>1, <1>3
  <2>3. <<"log", i>> = <<"log", j>>  BY <1>3, <2>1, <2>2
  <2>4. QED  BY <2>1, <2>2, <2>3
<1>4. ASSUME NEW a \in EventActions, MovesAssets(a)
      PROVE  a.cites \subseteq LogMoves /\ Cardinality(a.cites) = Len(a.assets)
  BY <1>1, <1>4 DEF LogMoves
<1>5. QED  BY <1>2, <1>3, <1>4 DEF Once

LEMMA CallOnce ==
  ASSUME head \in Heads
  PROVE  /\ Once(IF EventActions = {} /\ BridgeObservations = {} THEN CallAction ELSE {}, CallMoves)
         /\ \A a \in CallAction : a.kind # "bridge"
<1> DEFINE silent == \A i \in DOMAIN events :
                       /\ events[i].name \notin TransferEvents \cup ApprovalEvents
                       /\ ~IsBridgeEvent(events[i])
           t == Act(<<5, 0>>, "transfer", head.status, <<Asset("out", head.to)>>, {<<"call", 0>>})
<1>1. EventActions = {} <=> \A i \in DOMAIN events :
                              events[i].name \notin TransferEvents \cup ApprovalEvents
  BY DEF EventActions
<1>2. EventObservations = {} <=> \A i \in DOMAIN events : ~IsBridgeEvent(events[i])
  BY DEF EventObservations
<1>3. CallMoves = IF head.call = "transfer" /\ silent THEN {<<"call", 0>>} ELSE {}
  BY DEF CallMoves
<1>4. head.call = "transfer" => CallObservation = {}  BY DEF CallObservation
<1>5. head.call = "transfer" => (silent <=> EventActions = {} /\ BridgeObservations = {})
  BY <1>1, <1>2, <1>4 DEF BridgeObservations
<1>6. /\ t.cites = {<<"call", 0>>} /\ t.kind = "transfer"
      /\ Cardinality(t.cites) = Len(t.assets)
  <2>1. t.cites = {<<"call", 0>>} /\ t.kind = "transfer" /\ t.assets = <<Asset("out", head.to)>>
    BY DEF Act
  <2> HIDE DEF t
  <2>2. QED  BY <2>1, OneCite
<1>7. head.call = "transfer" => CallAction = {t}
  <2>1. Nobody # "transfer"  BY NobodyAssumption DEF CallNames
  <2>2. QED  BY <2>1 DEF CallAction, CallAct
<1>8. head.call # "transfer" => \A a \in CallAction : a.kind \in {"approval", "contract_call"}
  BY DEF CallAction, CallAct, Act
<1> HIDE DEF silent, t
<1>9. \A a \in CallAction : a.kind # "bridge"  BY <1>6, <1>7, <1>8
<1>10. CASE head.call = "transfer"
  BY <1>3, <1>5, <1>6, <1>7, <1>9, <1>10 DEF Once, MovesAssets
<1>11. CASE head.call # "transfer"
  BY <1>3, <1>8, <1>9, <1>11 DEF Once, MovesAssets
<1>12. QED  BY <1>10, <1>11

\* What a frame below the root moves.
MoveOfFrame(k) ==
  Act(<<6, (2 * k) + 1>>, "transfer", FrameStatus(TraceCalls[k]),
      <<Asset(Direction(TraceCalls[k].from,
                        IF TraceCalls[k].to = Nobody THEN TraceCalls[k].created ELSE TraceCalls[k].to),
              Native)>>,
      {<<"trace", k>>})

LEMMA TraceCallsAre ==
  ASSUME frames \in Seq(Frames), frames # <<>> => traced
  PROVE  /\ traced => /\ DOMAIN TraceCalls = 1..(Len(frames) + 1) /\ TraceCalls[1] = RootFrame
                      /\ \A j \in DOMAIN frames : /\ j + 1 \in DOMAIN TraceCalls
                                                  /\ TraceCalls[j + 1] = frames[j]
                      /\ \A k \in DOMAIN TraceCalls : k # 1 => k - 1 \in DOMAIN frames
         /\ ~traced => DOMAIN TraceCalls = {} /\ DOMAIN frames = {}
<1>1. CASE traced
  <2>1. TraceCalls = <<RootFrame>> \o frames  BY <1>1 DEF TraceCalls
  <2> DEFINE r == RootFrame
  <2> HIDE DEF r
  <2>2. TraceCalls = <<r>> \o frames  BY <2>1 DEF r
  <2>3. /\ DOMAIN (<<r>> \o frames) = 1..(Len(frames) + 1) /\ (<<r>> \o frames)[1] = r
        /\ \A j \in 1..Len(frames) : (<<r>> \o frames)[j + 1] = frames[j]
        /\ DOMAIN frames = 1..Len(frames) /\ Len(frames) \in Nat
    OBVIOUS
  <2>4. /\ DOMAIN TraceCalls = 1..(Len(frames) + 1) /\ TraceCalls[1] = RootFrame
        /\ \A j \in DOMAIN frames : TraceCalls[j + 1] = frames[j]
    BY <2>2, <2>3 DEF r
  <2>5. \A j \in DOMAIN frames : j + 1 \in DOMAIN TraceCalls  BY <2>3, <2>4
  <2>6. \A k \in DOMAIN TraceCalls : k # 1 => k - 1 \in DOMAIN frames  BY <2>3, <2>4
  <2>7. QED  BY <1>1, <2>4, <2>5, <2>6
<1>2. CASE ~traced
  <2>1. TraceCalls = <<>> /\ frames = <<>>  BY <1>2 DEF TraceCalls
  <2>2. QED  BY <1>2, <2>1
<1>3. QED  BY <1>1, <1>2

LEMMA FrameMoves ==
  ASSUME frames \in Seq(Frames), frames # <<>> => traced, NEW k \in DOMAIN TraceCalls
  PROVE  /\ \A a \in FrameActions(k) : a.kind \in {"deployment", "transfer"}
         /\ \A a \in FrameActions(k) : MovesAssets(a) =>
              a = MoveOfFrame(k) /\ TraceCalls[k].value /\ k # 1
         /\ TraceCalls[k].value /\ k # 1 =>
              MoveOfFrame(k) \in FrameActions(k) /\ MovesAssets(MoveOfFrame(k))
         /\ MoveOfFrame(k).cites = {<<"trace", k>>}
         /\ Cardinality(MoveOfFrame(k).cites) = Len(MoveOfFrame(k).assets)
<1> DEFINE m == MoveOfFrame(k)
           shown == (head.to = Nobody /\ head.created = TraceCalls[k].created)
                    \/ \E j \in 1..(k - 1) : TraceCalls[j].created = TraceCalls[k].created
           made == Act(<<6, 2 * k>>, "deployment", FrameStatus(TraceCalls[k]), <<>>, {<<"trace", k>>})
           dir == Direction(TraceCalls[k].from,
                    IF TraceCalls[k].to = Nobody THEN TraceCalls[k].created ELSE TraceCalls[k].to)
<1>1. FrameActions(k) = (IF TraceCalls[k].created # Nobody /\ ~shown THEN {made} ELSE {})
                          \cup (IF TraceCalls[k].value /\ ~DuplicatesTopLevelValue(k) THEN {m} ELSE {})
  BY DEF FrameActions, MoveOfFrame
<1>2. m.kind = "transfer" /\ m.cites = {<<"trace", k>>} /\ m.assets = <<Asset(dir, Native)>>
  BY DEF MoveOfFrame, Act
<1>3. made.kind = "deployment"  BY DEF Act
<1>4. k = 1 => DuplicatesTopLevelValue(k)
  BY TraceCallsAre DEF DuplicatesTopLevelValue, RootFrame
<1>5. k # 1 => ~DuplicatesTopLevelValue(k)  BY DEF DuplicatesTopLevelValue
<1> HIDE DEF m, shown, made, dir
<1>6. Cardinality(m.cites) = Len(m.assets)  BY <1>2, OneCite
<1>7. \A a \in FrameActions(k) : a = made \/ (a = m /\ TraceCalls[k].value /\ k # 1)
  BY <1>1, <1>4
<1>8. TraceCalls[k].value /\ k # 1 => m \in FrameActions(k)  BY <1>1, <1>5
<1>9. \A a \in FrameActions(k) : a.kind \in {"deployment", "transfer"}  BY <1>2, <1>3, <1>7
<1>10. ~MovesAssets(made) /\ MovesAssets(m)  BY <1>2, <1>3 DEF MovesAssets
<1>11. QED  BY <1>2, <1>6, <1>7, <1>8, <1>9, <1>10 DEF m

LEMMA TraceOnce ==
  ASSUME frames \in Seq(Frames), frames # <<>> => traced
  PROVE  /\ Once(TraceActions, TraceMoves)
         /\ \A a \in TraceActions : a.kind # "bridge"
<1>1. ASSUME NEW a \in TraceActions
      PROVE  /\ a.kind # "bridge"
             /\ MovesAssets(a) => \E k \in DOMAIN TraceCalls :
                  /\ a = MoveOfFrame(k) /\ TraceCalls[k].value /\ k # 1
                  /\ a.cites = {<<"trace", k>>} /\ Cardinality(a.cites) = Len(a.assets)
  <2>1. PICK k \in DOMAIN TraceCalls : a \in FrameActions(k)  BY <1>1 DEF TraceActions
  <2>2. QED  BY <2>1, FrameMoves
<1>2. \A k \in DOMAIN TraceCalls : TraceCalls[k].value /\ k # 1 => <<"trace", k>> \in TraceMoves
  <2>1. SUFFICES ASSUME NEW k \in DOMAIN TraceCalls, TraceCalls[k].value, k # 1
                 PROVE  <<"trace", k>> \in TraceMoves
    OBVIOUS
  <2>2. traced /\ k \in Nat /\ k - 1 \in DOMAIN frames /\ k - 1 \in Nat  BY <2>1, TraceCallsAre
  <2>3. TraceCalls[(k - 1) + 1] = frames[k - 1]  BY <2>2, TraceCallsAre
  <2>4. (k - 1) + 1 = k  BY <2>2
  <2>5. frames[k - 1].value  BY <2>1, <2>3, <2>4
  <2>6. <<"trace", (k - 1) + 1>> \in TraceMoves  BY <2>2, <2>5 DEF TraceMoves
  <2>7. QED  BY <2>4, <2>6
<1>3. ASSUME NEW ref \in TraceMoves
      PROVE  \E a \in TraceActions : MovesAssets(a) /\ ref \in a.cites
  <2>1. PICK j \in DOMAIN frames : frames[j].value /\ ref = <<"trace", j + 1>>
    BY <1>3 DEF TraceMoves
  <2>2. traced  BY <2>1, TraceCallsAre
  <2>3. j \in 1..Len(frames) /\ j + 1 # 1  OBVIOUS
  <2>4. j + 1 \in DOMAIN TraceCalls /\ TraceCalls[j + 1] = frames[j]
    BY <2>2, TraceCallsAre
  <2>5. MoveOfFrame(j + 1) \in TraceActions
    BY <2>1, <2>3, <2>4, FrameMoves DEF TraceActions
  <2>6. QED  BY <2>1, <2>3, <2>4, <2>5, FrameMoves
<1>4. ASSUME NEW a \in TraceActions, NEW b \in TraceActions, MovesAssets(a), MovesAssets(b),
             a.cites \cap b.cites # {}
      PROVE  a = b
  <2>1. PICK i \in DOMAIN TraceCalls : a = MoveOfFrame(i) /\ a.cites = {<<"trace", i>>}
    BY <1>1, <1>4
  <2>2. PICK j \in DOMAIN TraceCalls : b = MoveOfFrame(j) /\ b.cites = {<<"trace", j>>}
    BY <1>1, <1>4
  <2>3. <<"trace", i>> = <<"trace", j>>  BY <1>4, <2>1, <2>2
  <2>4. QED  BY <2>1, <2>2, <2>3
<1>5. ASSUME NEW a \in TraceActions, MovesAssets(a)
      PROVE  a.cites \subseteq TraceMoves /\ Cardinality(a.cites) = Len(a.assets)
  BY <1>1, <1>2, <1>5
<1>6. QED  BY <1>1, <1>3, <1>4, <1>5 DEF Once

-----------------------------------------------------------------------------
(* The whole list.                                                         *)

LEMMA TransfersAreFinite ==
  ASSUME events \in Seq(LogEvents), NEW direction
  PROVE  IsFiniteSet(Transfers(DeploymentActions \cup NativeValueActions
                                 \cup BridgeObservations \cup EventActions, direction))
<1> DEFINE J == {j \in DOMAIN events : events[j].name \in TransferEvents \cup ApprovalEvents}
           f == [i \in J |-> EventAction(i)]
<1>1. IsFiniteSet(J)
  <2> DEFINE n == Len(events)
  <2>1. n \in Nat /\ DOMAIN events = 1..n  OBVIOUS
  <2> HIDE DEF n
  <2>2. IsFiniteSet(1..n)  BY <2>1, FS_Interval
  <2>3. J \in SUBSET (1..n)  BY <2>1
  <2>4. QED  BY <2>2, <2>3, FS_Subset
<1>2. EventActions = {EventAction(i) : i \in J}  BY DEF EventActions
<1> HIDE DEF J
<1>3. f \in [J -> EventActions] /\ \A a \in EventActions : \E i \in J : f[i] = a
  BY <1>2
<1> HIDE DEF f
<1>4. f \in Surjection(J, EventActions)  BY <1>3, Fun_IsSurj
<1>5. IsFiniteSet(EventActions)  BY <1>1, <1>4, FS_Surjection
<1>6. IsFiniteSet(NativeValueActions)
  <2> DEFINE a == Act(<<2, 0>>, "transfer", head.status, <<Asset("out", Native)>>, {<<"value", 0>>})
  <2>1. NativeValueActions = {a} \/ NativeValueActions = {}  BY DEF NativeValueActions
  <2> HIDE DEF a
  <2>2. QED  BY <2>1, FS_Singleton, FS_EmptySet
<1>7. IsFiniteSet(NativeValueActions \cup EventActions)  BY <1>5, <1>6, FS_Union
<1>8. Transfers(DeploymentActions \cup NativeValueActions \cup BridgeObservations \cup EventActions,
                direction)
        \in SUBSET (NativeValueActions \cup EventActions)
  BY DeploymentMovesNothing, BridgeMovesNothing DEF Transfers, MovesAssets
<1>9. QED  BY <1>7, <1>8, FS_Subset

\* Before swaps are looked for, every transfer has one asset.
LEMMA OneAssetEach ==
  OneEach(DeploymentActions \cup NativeValueActions \cup BridgeObservations \cup EventActions)
<1>1. OneEach(DeploymentActions)  BY DEF OneEach, DeploymentActions, Act
<1>2. OneEach(NativeValueActions)
  <2> DEFINE a == Act(<<2, 0>>, "transfer", head.status, <<Asset("out", Native)>>, {<<"value", 0>>})
  <2>1. \A b \in NativeValueActions : b = a  BY DEF NativeValueActions
  <2>2. /\ a.kind = "transfer" /\ a.cites = {<<"value", 0>>}
        /\ a.assets = <<Asset("out", Native)>>
    BY DEF Act
  <2> HIDE DEF a
  <2>3. \E d, of, ref : a.assets = <<Asset(d, of)>> /\ a.cites = {ref}  BY <2>2
  <2>4. QED  BY <2>1, <2>2, <2>3 DEF OneEach
<1>3. OneEach(BridgeObservations)  BY BridgeMovesNothing DEF OneEach
<1>4. OneEach(EventActions)
  <2>1. ASSUME NEW a \in EventActions
        PROVE  /\ a.kind # "swap"
               /\ \E d, of, ref : a.assets = <<Asset(d, of)>> /\ a.cites = {ref}
    <3>1. PICK i \in DOMAIN events : a = EventAction(i)  BY <2>1 DEF EventActions
    <3>2. PICK d, of : a.assets = <<Asset(d, of)>>  BY <3>1, EventActionForm
    <3>3. a.cites = {<<"log", i>>} /\ a.kind # "swap"  BY <3>1, EventActionForm
    <3>4. QED  BY <3>2, <3>3
  <2>2. QED  BY <2>1 DEF OneEach
<1>5. QED  BY <1>1, <1>2, <1>3, <1>4 DEF OneEach

LEMMA KeepsTheRest ==
  ASSUME NEW A
  PROVE  /\ \A a \in A : a.kind \notin {"transfer", "swap"} => a \in CollapseSwap(A)
         /\ \A a \in CollapseSwap(A) : a \in A \/ a.kind = "swap"
<1> DEFINE out == Transfers(A, "out")
           in == Transfers(A, "in")
           swaps == {SwapOf(o, n) : o \in out, n \in in}
<1>1. \A s \in swaps : s.kind = "swap"
  <2>1. ASSUME NEW o, NEW n PROVE SwapOf(o, n).kind = "swap"  BY DEF SwapOf, Act
  <2>2. QED  BY <2>1
<1>2. \A a \in out \cup in : a.kind = "transfer"  BY DEF Transfers
<1>3. CollapseSwap(A) = A \/ CollapseSwap(A) = (A \ (out \cup in)) \cup swaps
  BY DEF CollapseSwap
<1> HIDE DEF out, in, swaps
<1>4. QED  BY <1>1, <1>2, <1>3

Gathered == DeploymentActions \cup NativeValueActions \cup BridgeObservations \cup EventActions
Called == IF EventActions = {} /\ BridgeObservations = {} THEN CallAction ELSE {}
Whole == CollapseSwap(Gathered) \cup Called \cup TraceActions

LEMMA NormalizedIs == Normalized = IF Whole = {} THEN {UnknownAction} ELSE Whole
BY DEF Normalized, Whole, Called, Gathered

LEMMA NormalizedOnce ==
  ASSUME EvidenceOK, head # Nobody
  PROVE  Once(Normalized, Movements)
<1>1. head \in Heads /\ events \in Seq(LogEvents) /\ frames \in Seq(Frames)
      /\ (frames # <<>> => traced)
  BY DEF EvidenceOK
<1>2. Once(NativeValueActions \cup EventActions, ValueMoves \cup LogMoves)
  <2>1. ValueMoves \cap LogMoves = {}  BY DEF ValueMoves, LogMoves
  <2>2. QED  BY <1>1, <2>1, NativeOnce, EventsOnce, OnceUnion
<1>3. Once(Gathered, ValueMoves \cup LogMoves)
  <2> DEFINE A == NativeValueActions \cup EventActions
             B == DeploymentActions \cup BridgeObservations
  <2>1. \A b \in B : ~MovesAssets(b)  BY DeploymentMovesNothing, BridgeMovesNothing
  <2>2. Gathered = A \cup B  BY DEF Gathered
  <2> HIDE DEF B
  <2>3. QED  BY <1>2, <2>1, <2>2, OnceBeside
<1>4. Once(CollapseSwap(Gathered), ValueMoves \cup LogMoves)
  <2>1. IsFiniteSet(Transfers(Gathered, "out")) /\ IsFiniteSet(Transfers(Gathered, "in"))
    BY <1>1, TransfersAreFinite DEF Gathered
  <2>2. OneEach(Gathered)  BY OneAssetEach DEF Gathered
  <2>3. QED  BY <1>3, <2>1, <2>2, SwapKeepsOnce
<1>5. Once(Called, CallMoves)  BY <1>1, CallOnce DEF Called
<1>6. Once(TraceActions, TraceMoves)  BY <1>1, TraceOnce
<1>7. Once(CollapseSwap(Gathered) \cup Called, (ValueMoves \cup LogMoves) \cup CallMoves)
  <2>1. (ValueMoves \cup LogMoves) \cap CallMoves = {}  BY DEF ValueMoves, LogMoves, CallMoves
  <2>2. QED  BY <1>4, <1>5, <2>1, OnceUnion
<1>8. Once(Whole, Movements)
  <2>1. ((ValueMoves \cup LogMoves) \cup CallMoves) \cap TraceMoves = {}
    BY DEF ValueMoves, LogMoves, CallMoves, TraceMoves
  <2>2. Movements = ((ValueMoves \cup LogMoves) \cup CallMoves) \cup TraceMoves
    BY MovementsByRule
  <2>3. QED  BY <1>6, <1>7, <2>1, <2>2, OnceUnion DEF Whole
<1>9. Whole = {} => Movements = {}  BY <1>8 DEF Once
<1>10. ~MovesAssets(UnknownAction)  BY DEF UnknownAction, Act, MovesAssets
<1>11. Whole = {} => Once({UnknownAction}, Movements)  BY <1>9, <1>10 DEF Once
<1>12. QED  BY <1>8, <1>11, NormalizedIs

-----------------------------------------------------------------------------
(* Bridges.                                                                *)

\* What BridgeIsObserved says of a list.
Observed(A) ==
  LET bridging == {a \in A : a.kind = "bridge"}
      logged == {<<s, {<<"log", i>>}>> : i \in DOMAIN events, s \in {"initiated", "finalized"}}
  IN  /\ \A a, b \in bridging : a.stage = b.stage /\ a.cites = b.cites => a = b
      /\ (\E a \in bridging : a.stage = "finalized" \/ <<a.stage, a.cites>> \in logged)
           => \A a \in bridging : <<a.stage, a.cites>> \in logged

LEMMA StageIsKnown ==
  ASSUME NEW e, IsBridgeEvent(e)
  PROVE  (CHOOSE s \in StageOf(e) : TRUE) \in {"initiated", "finalized"}
<1>1. \A t \in EventSemantics : t[3] \in {"initiated", "finalized"}  BY DEF EventSemantics
<1>2. \A s \in StageOf(e) : s \in {"initiated", "finalized"}  BY <1>1 DEF StageOf
<1>3. \E s \in StageOf(e) : TRUE  BY DEF IsBridgeEvent
<1>4. (CHOOSE s \in StageOf(e) : TRUE) \in StageOf(e)  BY <1>3
<1>5. QED  BY <1>2, <1>4

LoggedStage(i) == CHOOSE s \in StageOf(events[i]) : TRUE

LEMMA EventObservationForm ==
  ASSUME NEW a \in EventObservations
  PROVE  \E i \in DOMAIN events :
           /\ a = Bridging(i, LoggedStage(i), <<"log", i>>) /\ a.cites = {<<"log", i>>}
           /\ a.stage = LoggedStage(i) /\ LoggedStage(i) \in {"initiated", "finalized"}
<1>1. PICK i \in DOMAIN events : /\ IsBridgeEvent(events[i])
                                /\ a = Bridging(i, LoggedStage(i), <<"log", i>>)
  BY DEF EventObservations, LoggedStage
<1>2. LoggedStage(i) \in {"initiated", "finalized"}  BY <1>1, StageIsKnown DEF LoggedStage
<1>3. a.cites = {<<"log", i>>} /\ a.stage = LoggedStage(i)  BY <1>1 DEF Bridging
<1>4. QED  BY <1>1, <1>2, <1>3

LEMMA ObservedAlone == Observed(BridgeObservations)
<1> DEFINE logged == {<<s, {<<"log", i>>}>> : i \in DOMAIN events, s \in {"initiated", "finalized"}}
<1>1. \A a \in BridgeObservations : a.kind = "bridge"  BY BridgeMovesNothing
<1>2. CASE EventObservations # {}
  <2>1. ASSUME NEW a \in BridgeObservations
        PROVE  \E i \in DOMAIN events :
                 /\ a = Bridging(i, LoggedStage(i), <<"log", i>>) /\ a.cites = {<<"log", i>>}
                 /\ <<a.stage, a.cites>> \in logged
    <3>1. a \in EventObservations  BY <1>2 DEF BridgeObservations
    <3>2. PICK i \in DOMAIN events :
            /\ a = Bridging(i, LoggedStage(i), <<"log", i>>) /\ a.cites = {<<"log", i>>}
            /\ a.stage = LoggedStage(i) /\ LoggedStage(i) \in {"initiated", "finalized"}
      BY <3>1, EventObservationForm
    <3>3. <<a.stage, a.cites>> \in logged  BY <3>2
    <3> HIDE DEF logged
    <3>4. QED  BY <3>2, <3>3
  <2>2. \A a, b \in BridgeObservations : a.cites = b.cites => a = b
    <3>1. SUFFICES ASSUME NEW a \in BridgeObservations, NEW b \in BridgeObservations,
                          a.cites = b.cites
                   PROVE  a = b
      OBVIOUS
    <3>2. PICK i \in DOMAIN events : a = Bridging(i, LoggedStage(i), <<"log", i>>) /\ a.cites = {<<"log", i>>}
      BY <2>1
    <3>3. PICK j \in DOMAIN events : b = Bridging(j, LoggedStage(j), <<"log", j>>) /\ b.cites = {<<"log", j>>}
      BY <2>1
    <3>4. <<"log", i>> = <<"log", j>>  BY <3>1, <3>2, <3>3
    <3>5. i = j  BY <3>4
    <3>6. QED  BY <3>2, <3>3, <3>5
  <2> HIDE DEF logged
  <2>3. \A a \in BridgeObservations : <<a.stage, a.cites>> \in logged  BY <2>1
  <2>4. QED  BY <2>2, <2>3 DEF Observed, logged
<1>3. CASE EventObservations = {}
  <2> DEFINE c == Bridging(0, "initiated", <<"call", 0>>)
  <2>1. \A a \in BridgeObservations : a = c
    BY <1>3 DEF BridgeObservations, CallObservation
  <2>2. c.stage = "initiated" /\ c.cites = {<<"call", 0>>}  BY DEF Bridging
  <2> HIDE DEF c
  <2>3. <<c.stage, c.cites>> \notin logged
    <3>1. ASSUME NEW s, NEW i, <<c.stage, c.cites>> = <<s, {<<"log", i>>}>>
          PROVE  FALSE
      <4>1. <<"call", 0>> \in {<<"log", i>>}  BY <2>2, <3>1
      <4>2. <<"call", 0>> # <<"log", i>>  OBVIOUS
      <4>3. QED  BY <4>1, <4>2
    <3>2. QED  BY <3>1
  <2>4. QED  BY <2>1, <2>2, <2>3 DEF Observed
<1>4. QED  BY <1>2, <1>3

LEMMA NormalizedObserved ==
  ASSUME EvidenceOK, head # Nobody
  PROVE  Observed(Normalized)
<1>1. head \in Heads /\ frames \in Seq(Frames) /\ (frames # <<>> => traced)
  BY DEF EvidenceOK
<1>2. \A a \in BridgeObservations : a.kind = "bridge"  BY BridgeMovesNothing
<1>3. \A a \in Gathered : a.kind = "bridge" => a \in BridgeObservations
  <2>1. \A a \in DeploymentActions \cup NativeValueActions : a.kind # "bridge"
    BY DEF DeploymentActions, NativeValueActions, Act
  <2>2. ASSUME NEW a \in EventActions PROVE a.kind # "bridge"
    <3>1. PICK i \in DOMAIN events : a = EventAction(i)  BY <2>2 DEF EventActions
    <3>2. QED  BY <3>1, EventActionForm
  <2>3. QED  BY <2>1, <2>2 DEF Gathered
<1>4. \A a \in Called \cup TraceActions : a.kind # "bridge"
  BY <1>1, CallOnce, TraceOnce DEF Called
<1>5. UnknownAction.kind # "bridge"  BY DEF UnknownAction, Act
<1>6. {a \in Normalized : a.kind = "bridge"} = BridgeObservations
  <2>1. \A a \in BridgeObservations : a \in CollapseSwap(Gathered)
    <3>1. \A a \in BridgeObservations : a \in Gathered /\ a.kind \notin {"transfer", "swap"}
      BY <1>2 DEF Gathered
    <3>2. QED  BY <3>1, KeepsTheRest
  <2>2. \A a \in CollapseSwap(Gathered) : a.kind = "bridge" => a \in BridgeObservations
    <3>1. \A a \in CollapseSwap(Gathered) : a \in Gathered \/ a.kind = "swap"  BY KeepsTheRest
    <3>2. QED  BY <1>3, <3>1
  <2>3. QED  BY <1>2, <1>4, <1>5, <2>1, <2>2, NormalizedIs DEF Whole
<1>7. {a \in BridgeObservations : a.kind = "bridge"} = BridgeObservations  BY <1>2
<1>8. QED  BY <1>6, <1>7, ObservedAlone DEF Observed

-----------------------------------------------------------------------------
(* The order of the list.                                                  *)

\* No two actions stand in the same place, and all stand in these turns.
Placed(A, turns) ==
  /\ \A a \in A : a.place[1] \in turns
  /\ \A a, b \in A : a.place = b.place => a = b

LEMMA PlacedUnion ==
  ASSUME NEW A, NEW B, NEW S, NEW T, Placed(A, S), Placed(B, T), S \cap T = {}
  PROVE  Placed(A \cup B, S \cup T)
BY DEF Placed

LEMMA SwapKeepsPlaces ==
  ASSUME NEW A, NEW turns, Placed(A, turns), IsFiniteSet(Transfers(A, "out")),
         IsFiniteSet(Transfers(A, "in"))
  PROVE  Placed(CollapseSwap(A), turns)
<1>1. CASE ~SimpleSwap(A)  BY <1>1 DEF CollapseSwap
<1>2. CASE SimpleSwap(A)
  <2>1. PICK o : Transfers(A, "out") = {o}
    BY <1>2, FS_Singleton DEF SimpleSwap
  <2>2. PICK n : Transfers(A, "in") = {n}
    BY <1>2, FS_Singleton DEF SimpleSwap
  <2> DEFINE w == SwapOf(o, n)
  <2>3. CollapseSwap(A) = (A \ {o, n}) \cup {w}
    BY <1>2, <2>1, <2>2 DEF CollapseSwap
  <2>4. o \in A /\ n \in A  BY <2>1, <2>2 DEF Transfers
  <2>5. w.place = o.place \/ w.place = n.place  BY DEF SwapOf, Act
  <2> HIDE DEF w
  <2>6. QED  BY <2>3, <2>4, <2>5 DEF Placed
<1>3. QED  BY <1>1, <1>2

LEMMA GatheredPlaced == Placed(Gathered, {1, 2, 3, 4})
<1>1. Placed(DeploymentActions, {1})
  <2> DEFINE a == Act(<<1, 0>>, "deployment", head.status, <<>>, {<<"receipt", 0>>})
  <2>1. a.place = <<1, 0>>  BY DEF Act
  <2>2. \A b \in DeploymentActions : b = a  BY DEF DeploymentActions
  <2> HIDE DEF a
  <2>3. QED  BY <2>1, <2>2 DEF Placed
<1>2. Placed(NativeValueActions, {2})
  <2> DEFINE a == Act(<<2, 0>>, "transfer", head.status, <<Asset("out", Native)>>, {<<"value", 0>>})
  <2>1. a.place = <<2, 0>>  BY DEF Act
  <2>2. \A b \in NativeValueActions : b = a  BY DEF NativeValueActions
  <2> HIDE DEF a
  <2>3. QED  BY <2>1, <2>2 DEF Placed
<1>3. Placed(BridgeObservations, {3})
  <2>1. CASE EventObservations # {}
    <3>1. ASSUME NEW a \in BridgeObservations
          PROVE  \E i \in DOMAIN events : a = Bridging(i, LoggedStage(i), <<"log", i>>)
                                          /\ a.place = <<3, i>>
      <4>1. a \in EventObservations  BY <2>1 DEF BridgeObservations
      <4>2. PICK i \in DOMAIN events : a = Bridging(i, LoggedStage(i), <<"log", i>>)
        BY <4>1, EventObservationForm
      <4>3. QED  BY <4>2 DEF Bridging
    <3>2. ASSUME NEW a \in BridgeObservations PROVE a.place[1] = 3
      <4>1. PICK i \in DOMAIN events : a.place = <<3, i>>  BY <3>1
      <4>2. QED  BY <4>1
    <3>3. ASSUME NEW a \in BridgeObservations, NEW b \in BridgeObservations, a.place = b.place
          PROVE  a = b
      <4>1. PICK i \in DOMAIN events : a = Bridging(i, LoggedStage(i), <<"log", i>>)
                                       /\ a.place = <<3, i>>
        BY <3>1
      <4>2. PICK j \in DOMAIN events : b = Bridging(j, LoggedStage(j), <<"log", j>>)
                                       /\ b.place = <<3, j>>
        BY <3>1
      <4>3. <<3, i>> = <<3, j>>  BY <3>3, <4>1, <4>2
      <4>4. i = j  BY <4>3
      <4>5. QED  BY <4>1, <4>2, <4>4
    <3>4. QED  BY <3>2, <3>3 DEF Placed
  <2>2. CASE EventObservations = {}
    <3> DEFINE c == Bridging(0, "initiated", <<"call", 0>>)
    <3>1. \A a \in BridgeObservations : a = c
      BY <2>2 DEF BridgeObservations, CallObservation
    <3>2. c.place = <<3, 0>>  BY DEF Bridging
    <3> HIDE DEF c
    <3>3. QED  BY <3>1, <3>2 DEF Placed
  <2>3. QED  BY <2>1, <2>2
<1>4. Placed(EventActions, {4})
  <2>1. ASSUME NEW a \in EventActions
        PROVE  \E i \in DOMAIN events : a = EventAction(i) /\ a.place = <<4, i>>
    <3>1. PICK i \in DOMAIN events : a = EventAction(i)  BY <2>1 DEF EventActions
    <3>2. QED  BY <3>1, EventActionForm
  <2>2. \A a \in EventActions : a.place[1] = 4  BY <2>1
  <2>3. ASSUME NEW a \in EventActions, NEW b \in EventActions, a.place = b.place
        PROVE  a = b
    <3>1. PICK i \in DOMAIN events : a = EventAction(i) /\ a.place = <<4, i>>  BY <2>1
    <3>2. PICK j \in DOMAIN events : b = EventAction(j) /\ b.place = <<4, j>>  BY <2>1
    <3>3. <<4, i>> = <<4, j>>  BY <2>3, <3>1, <3>2
    <3>4. QED  BY <3>1, <3>2, <3>3
  <2>4. QED  BY <2>2, <2>3 DEF Placed
<1>5. Placed(DeploymentActions \cup NativeValueActions, {1, 2})
  <2>1. {1} \cap {2} = {} /\ {1} \cup {2} = {1, 2}  OBVIOUS
  <2>2. QED  BY <1>1, <1>2, <2>1, PlacedUnion
<1>6. Placed(DeploymentActions \cup NativeValueActions \cup BridgeObservations, {1, 2, 3})
  <2>1. {1, 2} \cap {3} = {} /\ {1, 2} \cup {3} = {1, 2, 3}  OBVIOUS
  <2>2. QED  BY <1>3, <1>5, <2>1, PlacedUnion
<1>7. {1, 2, 3} \cap {4} = {} /\ {1, 2, 3} \cup {4} = {1, 2, 3, 4}  OBVIOUS
<1>8. QED  BY <1>4, <1>6, <1>7, PlacedUnion DEF Gathered

LEMMA TracePlaced ==
  ASSUME frames \in Seq(Frames), frames # <<>> => traced
  PROVE  Placed(TraceActions, {6})
<1>1. ASSUME NEW k \in DOMAIN TraceCalls, NEW a \in FrameActions(k)
      PROVE  /\ k \in Nat
             /\ \/ a.place = <<6, 2 * k>> /\ a.kind = "deployment"
                   /\ a = Act(<<6, 2 * k>>, "deployment", FrameStatus(TraceCalls[k]), <<>>,
                              {<<"trace", k>>})
                \/ a.place = <<6, (2 * k) + 1>> /\ a = MoveOfFrame(k)
  <2>1. k \in Nat
    <3>1. traced  BY TraceCallsAre
    <3>2. k \in 1..(Len(frames) + 1)  BY <3>1, TraceCallsAre
    <3>3. QED  BY <3>2
  <2> DEFINE made == Act(<<6, 2 * k>>, "deployment", FrameStatus(TraceCalls[k]), <<>>,
                         {<<"trace", k>>})
  <2>2. a = made \/ a = MoveOfFrame(k)  BY <1>1 DEF FrameActions, MoveOfFrame
  <2>3. made.place = <<6, 2 * k>> /\ made.kind = "deployment"  BY DEF Act
  <2>4. MoveOfFrame(k).place = <<6, (2 * k) + 1>>  BY DEF MoveOfFrame, Act
  <2> HIDE DEF made
  <2>5. a = made => a.place = <<6, 2 * k>> /\ a.kind = "deployment"  BY <2>3
  <2>6. a = MoveOfFrame(k) => a.place = <<6, (2 * k) + 1>>  BY <2>4
  <2>7. QED  BY <2>1, <2>2, <2>5, <2>6 DEF made
<1>2. \A a \in TraceActions : a.place[1] = 6
  <2>1. SUFFICES ASSUME NEW a \in TraceActions PROVE a.place[1] = 6  OBVIOUS
  <2>2. PICK k \in DOMAIN TraceCalls : a \in FrameActions(k)  BY <2>1 DEF TraceActions
  <2>3. a.place = <<6, 2 * k>> \/ a.place = <<6, (2 * k) + 1>>  BY <1>1, <2>2
  <2>4. QED  BY <2>3
<1>3. ASSUME NEW a \in TraceActions, NEW b \in TraceActions, a.place = b.place
      PROVE  a = b
  <2>1. PICK i \in DOMAIN TraceCalls : a \in FrameActions(i)  BY <1>3 DEF TraceActions
  <2>2. PICK j \in DOMAIN TraceCalls : b \in FrameActions(j)  BY <1>3 DEF TraceActions
  <2>3. i \in Nat /\ j \in Nat  BY <1>1, <2>1, <2>2
  <2>4. \A x, y : <<6, x>> = <<6, y>> => x = y  OBVIOUS
  <2>5. i = j
    <3>1. \/ a.place = <<6, 2 * i>>
          \/ a.place = <<6, (2 * i) + 1>>
      BY <1>1, <2>1
    <3>2. \/ b.place = <<6, 2 * j>>
          \/ b.place = <<6, (2 * j) + 1>>
      BY <1>1, <2>2
    <3>3. \/ 2 * i = 2 * j \/ 2 * i = (2 * j) + 1
          \/ (2 * i) + 1 = 2 * j \/ (2 * i) + 1 = (2 * j) + 1
      BY <1>3, <2>4, <3>1, <3>2
    <3>4. QED  BY <2>3, <3>3
  <2>6. 2 * i # (2 * i) + 1  BY <2>3
  <2>7. <<6, 2 * i>> # <<6, (2 * i) + 1>>  BY <2>4, <2>6
  <2>8. QED  BY <1>1, <1>3, <2>1, <2>2, <2>5, <2>7
<1>4. QED  BY <1>2, <1>3 DEF Placed

LEMMA NormalizedPlaced ==
  ASSUME EvidenceOK, head # Nobody
  PROVE  Placed(Normalized, 1..7)
<1>1. head \in Heads /\ events \in Seq(LogEvents) /\ frames \in Seq(Frames)
      /\ (frames # <<>> => traced)
  BY DEF EvidenceOK
<1>2. Placed(CollapseSwap(Gathered), {1, 2, 3, 4})
  <2>1. IsFiniteSet(Transfers(Gathered, "out")) /\ IsFiniteSet(Transfers(Gathered, "in"))
    BY <1>1, TransfersAreFinite DEF Gathered
  <2>2. QED  BY <2>1, GatheredPlaced, SwapKeepsPlaces
<1>3. Placed(Called, {5})
  <2>1. \A a, b \in CallAction : a = b  BY DEF CallAction, CallAct
  <2>2. \A a \in CallAction : a.place[1] = 5  BY DEF CallAction, CallAct, Act
  <2>3. QED  BY <2>1, <2>2 DEF Called, Placed
<1>4. Placed(CollapseSwap(Gathered) \cup Called, {1, 2, 3, 4, 5})
  <2>1. {1, 2, 3, 4} \cap {5} = {} /\ {1, 2, 3, 4} \cup {5} = {1, 2, 3, 4, 5}  OBVIOUS
  <2>2. QED  BY <1>2, <1>3, <2>1, PlacedUnion
<1>5. Placed(Whole, {1, 2, 3, 4, 5, 6})
  <2>1. {1, 2, 3, 4, 5} \cap {6} = {} /\ {1, 2, 3, 4, 5} \cup {6} = {1, 2, 3, 4, 5, 6}  OBVIOUS
  <2>2. QED  BY <1>1, <1>4, <2>1, TracePlaced, PlacedUnion DEF Whole
<1>6. UnknownAction.place[1] = 7  BY DEF UnknownAction, Act
<1>7. Placed({UnknownAction}, {7})  BY <1>6 DEF Placed
<1>8. QED  BY <1>5, <1>7, NormalizedIs DEF Placed

-----------------------------------------------------------------------------
(* The steps.                                                              *)

\* Once derived, the actions are those of the evidence, which stays as it is.
ActionsInv ==
  /\ EvidenceOK
  /\ derived # Nobody => /\ Once(derived, Movements)
                         /\ Observed(derived)
                         /\ Placed(derived, 1..7)

LEMMA ActionsInvInit == ActionsInit => ActionsInv
BY DEF ActionsInit, ActionsInv, EvidenceOK

LEMMA EvidenceStep == EvidenceOK /\ [ActionsNext]_actionVars => EvidenceOK'
<1>1. SUFFICES ASSUME EvidenceOK, [ActionsNext]_actionVars PROVE EvidenceOK'
  OBVIOUS
<1>2. CASE ReadReceipt
  BY <1>1, <1>2, NobodyAssumption DEF EvidenceOK, ReadReceipt
<1>3. CASE AddEvent
  <2>1. PICK e \in LogEvents : events' = Append(events, e)  BY <1>3 DEF AddEvent
  <2>2. events' \in Seq(LogEvents)  BY <1>1, <2>1 DEF EvidenceOK
  <2>3. QED  BY <1>1, <1>3, <2>2 DEF EvidenceOK, AddEvent
<1>4. CASE LoadedTrace
  BY <1>1, <1>4 DEF EvidenceOK, LoadedTrace
<1>5. CASE AddFrame
  <2>1. PICK f \in Frames : frames' = Append(frames, f)  BY <1>5 DEF AddFrame
  <2>2. frames' \in Seq(Frames)  BY <1>1, <2>1 DEF EvidenceOK
  <2>3. QED  BY <1>1, <1>5, <2>2 DEF EvidenceOK, AddFrame
<1>6. CASE Normalize
  BY <1>1, <1>6 DEF EvidenceOK, Normalize
<1>7. CASE UNCHANGED actionVars
  BY <1>1, <1>7 DEF EvidenceOK, actionVars
<1>8. QED  BY <1>1, <1>2, <1>3, <1>4, <1>5, <1>6, <1>7 DEF ActionsNext

LEMMA SameEvidence ==
  ASSUME UNCHANGED <<head, events, traced, frames>>
  PROVE  Movements' = Movements
BY DEF Movements, IsBridgeEvent, StageOf

LEMMA ActionsInvStep == ActionsInv /\ [ActionsNext]_actionVars => ActionsInv'
<1>1. SUFFICES ASSUME ActionsInv, [ActionsNext]_actionVars PROVE ActionsInv'
  OBVIOUS
<1>2. EvidenceOK'  BY <1>1, EvidenceStep DEF ActionsInv
<1>3. CASE derived' = Nobody  BY <1>2, <1>3 DEF ActionsInv
<1>4. CASE derived' # Nobody /\ derived = Nobody
  <2>1. Normalize
    BY <1>1, <1>4
    DEF ActionsNext, ReadReceipt, AddEvent, LoadedTrace, AddFrame, actionVars
  <2>2. /\ head # Nobody /\ derived' = Normalized
        /\ UNCHANGED <<head, events, traced, frames>>
    BY <2>1 DEF Normalize
  <2>3. Once(derived', Movements) /\ Observed(derived') /\ Placed(derived', 1..7)
    BY <1>1, <2>2, NormalizedOnce, NormalizedObserved, NormalizedPlaced DEF ActionsInv
  <2>4. Once(derived', Movements')  BY <2>2, <2>3, SameEvidence
  <2>5. Observed(derived)'
    BY <2>2, <2>3 DEF Observed
  <2>6. QED  BY <1>2, <2>3, <2>4, <2>5 DEF ActionsInv, Once, MovesAssets, Placed
<1>5. CASE derived' # Nobody /\ derived # Nobody
  <2>1. head # Nobody  BY <1>1, <1>5 DEF ActionsInv, EvidenceOK
  <2>2. UNCHANGED actionVars
    BY <1>1, <1>5, <2>1
    DEF ActionsNext, ReadReceipt, AddEvent, LoadedTrace, AddFrame, Normalize, actionVars
  <2>3. Once(derived', Movements) /\ Observed(derived') /\ Placed(derived', 1..7)
    BY <1>1, <1>5, <2>2 DEF ActionsInv, actionVars
  <2>4. Once(derived', Movements')  BY <2>2, <2>3, SameEvidence DEF actionVars
  <2>5. Observed(derived)'  BY <2>2, <2>3 DEF Observed, actionVars
  <2>6. QED  BY <1>2, <2>3, <2>4, <2>5 DEF ActionsInv, Once, MovesAssets, Placed
<1>6. QED  BY <1>3, <1>4, <1>5

THEOREM ActionsInvTheorem == ActionsSpec => []ActionsInv
<1>1. QED  BY ActionsInvInit, ActionsInvStep, PTL DEF ActionsSpec

(* However native value, events, a swap, the root of a trace and the       *)
(* decoded call describe the same transaction, each movement is in exactly *)
(* one transfer or swap of its list of actions.                            *)
THEOREM EveryMovementOnceTheorem == ActionsSpec => []EveryMovementOnce
<1>1. ActionsInv => EveryMovementOnce
  <2>1. SUFFICES ASSUME ActionsInv, derived # Nobody
                 PROVE  /\ \A ref \in Movements :
                             Cardinality({a \in derived : MovesAssets(a) /\ ref \in a.cites}) = 1
                        /\ \A a \in derived : MovesAssets(a) =>
                             a.cites \subseteq Movements /\ Cardinality(a.cites) = Len(a.assets)
    BY DEF EveryMovementOnce
  <2>2. Once(derived, Movements)  BY <2>1 DEF ActionsInv
  <2>3. QED  BY <2>2, OnceCounts
<1>2. QED  BY <1>1, ActionsInvTheorem, PTL

(* A bridge transfer is said to be initiated or finalized once, by the     *)
(* gateway's own event where there is one, and never finalized by a call.  *)
THEOREM BridgeIsObservedTheorem == ActionsSpec => []BridgeIsObserved
<1>1. ActionsInv => BridgeIsObserved  BY DEF ActionsInv, BridgeIsObserved, Observed
<1>2. QED  BY <1>1, ActionsInvTheorem, PTL

(* No two actions have the same place, so the set is the ordered list that *)
(* normalize returns: a swap stands where one of its two transfers stood,  *)
(* and an internal call's deployment just before its transfer.             *)
THEOREM PlacesAreDistinct ==
  ActionsSpec => [](derived # Nobody => \A a, b \in derived : a.place = b.place => a = b)
<1>1. ActionsInv => (derived # Nobody => \A a, b \in derived : a.place = b.place => a = b)
  BY DEF ActionsInv, Placed
<1>2. QED  BY <1>1, ActionsInvTheorem, PTL
=============================================================================
