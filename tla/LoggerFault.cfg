SPECIFICATION Spec
CONSTANTS
  Readers = {r1}
  Writers = {w1, w2}
  Faulting = {w1}
  size = 8
  Base = 2
  Payloads <- TwoPayloads
INVARIANTS
  HeadsAtEntries
