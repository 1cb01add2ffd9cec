SPECIFICATION Spec
CONSTANTS
  Writers = {w1, w2}
  Reaper = reaper
  Readers = {r1}
  Env = {"crash"}
  Requests <- UnsignedOnly
  Unsigned = unsigned
  Key = key
  Nonces = {1}
  RingLimits = {2}
  ReadBudget = 2
  Ephemeral = TRUE
  MaxCalls = 4
  MaxSince = 4
SYMMETRY WriterSymmetry
INVARIANTS SeqContiguous CursorNotStranded
PROPERTIES LiveRoomKept KeepsPromise
