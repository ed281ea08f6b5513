----------------------- MODULE MCProtocolCollection -----------------------
(* ProtocolCollection on an Aave market, a Compound market and a vault.    *)
EXTENDS ProtocolCollection, TLC

CONSTANTS aave, compound, vault

AaveThenVault == <<aave, vault>>
JustCompound == <<compound>>

Symmetry == Permutations(Collectors) \cup Permutations(Providers)
=============================================================================
