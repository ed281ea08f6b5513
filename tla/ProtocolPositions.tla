------------------------- MODULE ProtocolPositions -------------------------
(***************************************************************************)
(* The protocol adapters: what positions, completeness and receipt tokens  *)
(* follow from the evidence of one snapshot.  A holding is what the wallet *)
(* has in the protocol; evidence is the holding with the outcome of each   *)
(* optional read.  Amounts are one unit or none, addresses and symbols are *)
(* the assets' names.  Pure definitions, composed by Portfolio.            *)
(***************************************************************************)
EXTENDS FiniteSets

ProtocolNames == {"aave-v3", "compound-v3", "uniswap-v3", "erc4626"}

\* What may be held: lending or a vault by units, liquidity by an NFT.
\* Base supply and base debt exclude each other in Compound.
Holdings(protocol) ==
  CASE protocol = "aave-v3" -> SUBSET {"supply", "debt"}
    [] protocol = "compound-v3" -> {h \in SUBSET {"supply", "debt", "collateral"} : ~({"supply", "debt"} \subseteq h)}
    [] protocol = "erc4626" -> SUBSET {"shares"}
    [] protocol = "uniswap-v3" -> SUBSET {"liquidity"}

\* The reads that may fail without ending the collection, per protocol: of an
\* Aave reserve its balances, its configuration and, for a reserve in use, the
\* addresses of its receipt tokens;
AaveReads(holding) ==
  {"user reserve data", "reserve configuration", "account"}
    \cup (IF holding # {} THEN {"reserve token addresses"} ELSE {})

\* of a Compound market its collateral assets, the base position being mandatory;
CompoundReads(holding) == {"collateral symbol", "collateral balance"}

\* of a vault the value of its shares, when there are any;
VaultReads(holding) ==
  IF holding # {} THEN {"convertToAssets", "previewRedeem", "maxRedeem"} ELSE {}

\* of a liquidity NFT its state, then symbol and decimals of its two tokens.
LiquidityReads(holding) ==
  IF holding # {} THEN {"position state", "token symbol", "token decimals"} ELSE {}

OptionalReads(protocol, holding) ==
  CASE protocol = "aave-v3" -> AaveReads(holding)
    [] protocol = "compound-v3" -> CompoundReads(holding)
    [] protocol = "erc4626" -> VaultReads(holding)
    [] protocol = "uniswap-v3" -> LiquidityReads(holding)

\* The evidence a collection can leave: the token addresses of a reserve are
\* only asked for once its balances are known.
EvidenceOf(protocol, holding) ==
  {[protocol |-> protocol, holding |-> holding, failed |-> f] :
     f \in {g \in SUBSET OptionalReads(protocol, holding) :
              "user reserve data" \in g => "reserve token addresses" \notin g}}

-----------------------------------------------------------------------------
(* A position: what is counted, in which asset, whether its amount is      *)
(* known, whether it is owed.                                              *)

Position(item, assets, liability) ==
  [item |-> item, assets |-> assets, liability |-> liability]

\* AaveV3Adapter: a reserve without its balances or its decimals gives no position.
AavePositions(e) ==
  IF e.failed \cap {"user reserve data", "reserve configuration"} # {} THEN {}
  ELSE {Position(h, {"usdc"}, h = "debt") : h \in e.holding}

\* CompoundV3Adapter: the base position is mandatory, a collateral asset is not.
CompoundPositions(e) ==
  {Position(h, {IF h = "collateral" THEN "weth" ELSE "usdc"}, h = "debt") :
     h \in e.holding \ (IF "collateral balance" \in e.failed THEN {"collateral"} ELSE {})}

\* ERC4626Adapter: shares without a conversion are a position without assets.
VaultPositions(e) ==
  {Position(h, IF "convertToAssets" \in e.failed THEN {} ELSE {"usdc"}, FALSE) : h \in e.holding}

\* UniswapV3Adapter: two underlying assets; without decimals they have no amount.
LiquidityPositions(e) ==
  IF "position state" \in e.failed THEN {}
  ELSE {Position(h, {"usdc", "weth"}, FALSE) : h \in e.holding}

\* The registry takes the one adapter that claims a contract of the evidence; it
\* refuses adapters that claim the same one, and each protocol here has its own.
Positions(e) ==
  CASE e.protocol = "aave-v3" -> AavePositions(e)
    [] e.protocol = "compound-v3" -> CompoundPositions(e)
    [] e.protocol = "erc4626" -> VaultPositions(e)
    [] e.protocol = "uniswap-v3" -> LiquidityPositions(e)

\* The amounts that can be scaled, and so be valued.
Sized(e) == ~(e.protocol = "uniswap-v3" /\ "token decimals" \in e.failed)

\* Any failed read is a warning, and any warning makes the result PARTIAL.
AdapterStatus(e) == IF e.failed = {} THEN "MATCHED" ELSE "PARTIAL"

Analyze(e) ==
  [protocol |-> e.protocol, evidence |-> e, positions |-> Positions(e), status |-> AdapterStatus(e)]

-----------------------------------------------------------------------------
(* The wallet tokens that mirror a holding.                                *)

ReceiptToken(protocol, item) ==
  CASE protocol = "aave-v3" /\ item = "supply" -> "aUSDC"
    [] protocol = "aave-v3" /\ item = "debt" -> "variableDebtUSDC"
    [] protocol = "compound-v3" /\ item = "supply" -> "cUSDCv3"
    [] protocol = "erc4626" /\ item = "shares" -> "sDAI"
    [] OTHER -> "none"

ReceiptsHeld(protocol, holding) == {ReceiptToken(protocol, h) : h \in holding} \ {"none"}

\* Mutant: vault shares are left out even when no asset replaces them.
ReceiptsOfAnyShares(result) ==
  LET e == result.evidence
      known == CASE e.protocol = "aave-v3" ->
                      IF e.failed \cap {"user reserve data", "reserve token addresses"} # {} THEN {} ELSE e.holding
                 [] e.protocol = "compound-v3" -> e.holding \cap {"supply"}
                 [] e.protocol = "erc4626" -> e.holding
                 [] OTHER -> {}
  IN  ReceiptsHeld(e.protocol, known)

\* protocol_receipt_token_addresses: from raw evidence for the lending
\* protocols, from the normalized position for vaults.
ProtocolReceiptTokens(result) ==
  LET e == result.evidence
      known == CASE e.protocol = "aave-v3" ->
                      IF e.failed \cap {"user reserve data", "reserve token addresses"} # {} THEN {} ELSE e.holding
                 [] e.protocol = "compound-v3" -> e.holding \cap {"supply"}
                 [] e.protocol = "erc4626" -> {q.item : q \in {r \in result.positions : r.assets # {}}}
                 [] OTHER -> {}
  IN  ReceiptsHeld(e.protocol, known)

=============================================================================
