SPECIFICATION Spec
CONSTANTS
  Writers = {w1, w2}
  Reaper = reaper
  Readers = {}
  Env = {"cutwrite", "seqfail", "stall", "oldlock"}
  Requests <- WithSigned
  Unsigned = unsigned
  Key = key
  Nonces = {1, 2}
  RingLimits = {1, 3}
  ReadBudget = 2
  Ephemeral = FALSE
  MaxCalls = 4
  MaxSince = 0
SYMMETRY WriterSymmetry
ACTION_CONSTRAINT SweptUnused
INVARIANTS RecordsStand NonceOrder
