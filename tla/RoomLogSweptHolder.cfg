SPECIFICATION Spec
CONSTANTS
  Writers = {w1, w2}
  Reaper = reaper
  Readers = {}
  Env = {"oldlock"}
  Requests <- UnsignedOnly
  Unsigned = unsigned
  Key = key
  Nonces = {1}
  RingLimits = {2}
  ReadBudget = 2
  Ephemeral = FALSE
  MaxCalls = 3
  MaxSince = 0
SYMMETRY WriterSymmetry
PROPERTIES SweepSparesHolders
