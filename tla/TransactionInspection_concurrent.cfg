CONSTANTS
  t1 = t1
  t2 = t2
  proxy = proxy
  impl = impl
  Processes = {p1, p2}
  Txs = {t1}
  Contracts = {proxy, impl}
  ABIs = {abi1}
  Target <- MCTarget
  Emitters <- MCEmitters
  Reverted = {t1}
  Blocks <- MCBlocks
  Implementation <- MCImplementation
  EndpointCount = 2
  Serves <- MCServes
  Forces = {FALSE}
  MaxEdits = 0
  MaxRestarts = 0
  None = None
SPECIFICATION Spec
PROPERTIES
  EvidenceIsKept
CHECK_DEADLOCK FALSE
