------------------------------ MODULE MCParts ------------------------------
(***************************************************************************)
(* Parts of the application that share no state, model-checked together:   *)
(* `part` says which one moves, the others stay as they began.  Each is    *)
(* explored in full, none in combination with another.                     *)
(***************************************************************************)
EXTENDS WalletActions, Portfolio, UniswapPool, LocalState, StockTokenAudit, UserData, XStocksBrowser

CONSTANT Parts
VARIABLE part

MCWallets == <<"poor", "rich">>
MCHeld ==
  [w \in {"poor", "rich"} |->
     IF w = "poor" THEN {{}}
     ELSE {{"aUSDC", "variableDebtUSDC"}, {"cUSDCv3"}, {"sDAI", "usdc"}}]
MCUsed ==
  [w \in {"poor", "rich"} |->
     IF w = "poor" THEN {{}}
     ELSE {{p} : p \in ProtocolNames} \cup {{}, {"erc4626", "uniswap-v3"}}]
MCAges == {-1, 0, 2}

userVars == <<snapshotVars, entryVars>>
walletVars == <<actionVars, portfolioVars, pool>>
issuerVars == <<auditVars, browserVars>>
partVars == <<part, walletVars, localVars, issuerVars, userVars>>

PartsInit ==
  /\ part \in Parts
  /\ ActionsInit /\ PortfolioInit /\ PoolInit /\ LocalInit /\ AuditInit
  /\ SnapshotsInit /\ EntriesInit /\ BrowserInit

ActionsPart ==
  /\ part = "actions" /\ ActionsNext
  /\ UNCHANGED <<part, portfolioVars, pool, localVars, issuerVars, userVars>>
PortfolioPart ==
  /\ part = "portfolio" /\ PortfolioNext
  /\ UNCHANGED <<part, actionVars, pool, localVars, issuerVars, userVars>>
PoolPart ==
  /\ part = "pool" /\ PoolNext
  /\ UNCHANGED <<part, actionVars, portfolioVars, localVars, issuerVars, userVars>>
LocalPart ==
  /\ part = "local" /\ LocalNext
  /\ UNCHANGED <<part, walletVars, issuerVars, userVars>>
AuditPart ==
  /\ part = "audit" /\ AuditNext
  /\ UNCHANGED <<part, walletVars, localVars, browserVars, userVars>>
BrowserPart ==
  /\ part = "browser" /\ BrowserNext
  /\ UNCHANGED <<part, walletVars, localVars, auditVars, userVars>>
SnapshotsPart ==
  /\ part = "snapshots" /\ SnapshotsNext
  /\ UNCHANGED <<part, walletVars, localVars, issuerVars, entryVars>>
EntriesPart ==
  /\ part = "entries" /\ EntriesNext
  /\ UNCHANGED <<part, walletVars, localVars, issuerVars, snapshotVars>>

PartsNext ==
  \/ ActionsPart \/ PortfolioPart \/ PoolPart \/ LocalPart \/ AuditPart
  \/ BrowserPart \/ SnapshotsPart \/ EntriesPart

PartsSpec == PartsInit /\ [][PartsNext]_partVars
=============================================================================
