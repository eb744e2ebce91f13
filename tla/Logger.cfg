SPECIFICATION FairSpec
CONSTANTS
  Readers = {r1, r2}
  Writers = {w1}
  Faulting = {w1}
  size = 8
  Base = 2
  Payloads <- TwoPayloads
INVARIANTS
  LogConsistent
PROPERTIES
  
  ReaderReturns
