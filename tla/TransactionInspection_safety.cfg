CONSTANTS
  t1 = t1
  t2 = t2
  proxy = proxy
  impl = impl
  Processes = {p1}
  Txs = {t1, t2}
  Contracts = {proxy, impl}
  ABIs = {abi1}
  Target <- MCTarget
  Emitters <- MCEmitters
  Reverted = {t1}
  Blocks <- MCBlocks
  Implementation <- MCImplementation
  EndpointCount = 2
  Serves <- MCServes
  Forces = {FALSE}
  MaxEdits = 1
  MaxRestarts = 1
  None = None
SPECIFICATION Spec
INVARIANTS
  UnsupportedIsTrue
  DecodedWithTheABIsInForce
  ActionsFollowEvidence
PROPERTIES
  EvidenceIsKept
CHECK_DEADLOCK FALSE
